---- MODULE Spec2Model ----
(***************************************************************************)
(* Model of the native face comparison of PhotoLeloApp                     *)
(* (FaceComparisonModule.java): one compareFaces call at a time, from the  *)
(* synchronous load of the two images through the two detector callbacks   *)
(* to the settlement of the promise, together with the feature extractor,  *)
(* its LruCache and the scorer; and of the JavaScript layer above it       *)
(* (utils/faceVerification.js).  Spec is the native call, SpecJS the       *)
(* JavaScript call; the other specifications apply one function of the     *)
(* program to inputs drawn from a bounded set.                             *)
(*                                                                         *)
(* Numbers.  A double is modelled by an exact fixed-point integer:         *)
(*   - a feature value v by floor(v * 1000);                               *)
(*   - a distance d by its number of thousandths;                          *)
(*   - a confidence c (a percentage) by c * ConfDen, which is exact for    *)
(*     every distance that is a whole number of thousandths.               *)
(* Floating-point rounding is not modelled.                                *)
(*                                                                         *)
(* Pixels.  A bitmap is a width, a height and one colour shared by all its *)
(* pixels, so cropping and scaling keep the colour and change the size.    *)
(***************************************************************************)
EXTENDS Integers, Sequences, FiniteSets, TLC

VARIABLES pc, call, promise, bitmaps, featureCache, extracts, exitPath,
          usedFallback, prev, ncalls, score, probe, js

vars == <<pc, call, promise, bitmaps, featureCache, extracts, exitPath,
          usedFallback, prev, ncalls, score, probe, js>>

\* the state of the native compareFaces call
callVars == <<pc, call, promise, bitmaps, featureCache, extracts, exitPath,
              usedFallback, prev, ncalls>>

(***************************************************************************)
(* Bounds of the model.                                                    *)
(***************************************************************************)
MaxCalls == 2

MaxDistance == 6000

(***************************************************************************)
(* Program constants.                                                      *)
(***************************************************************************)
MAX_IMAGE_SIZE == 1024

CACHE_SIZE == 10

FeatureVectorLength == 64

SkinToneLength == 16

SpatialLength == 27

HistogramLength == 24

FaceScale == 5000

FallbackScale == 3500

FaceThreshold == 70

FallbackThreshold == 85

FallbackTargetSize == 300

(***************************************************************************)
(* Arithmetic helpers (java.lang.Math and integer division).               *)
(***************************************************************************)
Min(a, b) == IF a < b THEN a ELSE b

Max(a, b) == IF a > b THEN a ELSE b

Abs(a) == IF a < 0 THEN -a ELSE a

\* floor(n / d * 1000): the fixed-point image of the double n / d
FP(n, d) == (n * 1000) \div d

\* number of iterations of  for (i = from; i < to; i += step)
LoopCount(from, to, step) == IF to > from THEN (to - from + step - 1) \div step ELSE 0

RECURSIVE ISqrtIn(_, _, _)
ISqrtIn(n, lo, hi) ==
  IF lo >= hi THEN lo
  ELSE LET mid == (lo + hi + 1) \div 2
       IN  IF mid * mid <= n THEN ISqrtIn(n, mid, hi) ELSE ISqrtIn(n, lo, mid - 1)

\* floor(sqrt(n)) for n in 0 .. 2^30
ISqrt(n) == ISqrtIn(n, 0, 32768)

(***************************************************************************)
(* Bitmaps.  NoBitmap stands for Java's null.                              *)
(***************************************************************************)
NoBitmap == [w |-> 0, h |-> 0, rgb |-> <<0, 0, 0>>]

IsNull(bm) == bm.w = 0

SkinColour == <<200, 120, 100>>

BlueColour == <<0, 0, 248>>

\* The files of the device: path |-> decoded bitmap (NoBitmap: no such file).
\* "a" and "b" have the same size and different pixels.
Paths == {"a", "b", "c", "missing"}

File(path) ==
  CASE path = "a" -> [w |-> 8, h |-> 8, rgb |-> SkinColour]
    [] path = "b" -> [w |-> 8, h |-> 8, rgb |-> BlueColour]
    [] path = "c" -> [w |-> 12, h |-> 6, rgb |-> SkinColour]
    [] OTHER -> NoBitmap

\* the while loop of lines 316-318
RECURSIVE sampleSizeLoop(_, _, _, _)
sampleSizeLoop(halfHeight, halfWidth, maxSize, sampleSize) ==
  IF (halfHeight \div sampleSize) >= maxSize /\ (halfWidth \div sampleSize) >= maxSize
  THEN sampleSizeLoop(halfHeight, halfWidth, maxSize, sampleSize * 2)
  ELSE sampleSize

calculateSampleSize(width, height, maxSize) ==
  IF height > maxSize \/ width > maxSize
  THEN sampleSizeLoop(height \div 2, width \div 2, maxSize, 1)
  ELSE 1

\* BitmapFactory.decodeFile with options.inSampleSize: each side divided by
\* the sample size
decodeFile(bm, sampleSize) ==
  [w |-> Max(1, bm.w \div sampleSize), h |-> Max(1, bm.h \div sampleSize),
   rgb |-> bm.rgb]

\* File(path) is the image as stored, already upright
loadAndOrientBitmap(path) ==
  IF IsNull(File(path)) THEN NoBitmap
  ELSE decodeFile(File(path),
                  calculateSampleSize(File(path).w, File(path).h, MAX_IMAGE_SIZE))

\* Bitmap.createBitmap(source, left, top, width, height)
CreateBitmap(bm, width, height) == [w |-> width, h |-> height, rgb |-> bm.rgb]

\* Bitmap.createScaledBitmap(source, targetSize, targetSize, true)
CreateScaledBitmap(bm, width, height) == [w |-> width, h |-> height, rgb |-> bm.rgb]

(***************************************************************************)
(* Faces: a face is its bounding box.                                      *)
(***************************************************************************)
Box(l, t, r, b) == [left |-> l, top |-> t, right |-> r, bottom |-> b]

BoxWidth(bx) == bx.right - bx.left

BoxHeight(bx) == bx.bottom - bx.top

\* What the detector can answer: no face, one face, two faces, and one
\* face with an empty box.
FaceLists ==
  { <<>>,
    <<Box(2, 2, 6, 6)>>,
    <<Box(0, 0, 3, 3), Box(2, 1, 8, 6)>>,
    <<Box(4, 4, 4, 4)>> }

RECURSIVE LargestFrom(_, _, _, _)
LargestFrom(faces, i, maxArea, largest) ==
  IF i > Len(faces) THEN largest
  ELSE LET area == BoxWidth(faces[i]) * BoxHeight(faces[i])
       IN  IF area > maxArea
           THEN LargestFrom(faces, i + 1, area, faces[i])
           ELSE LargestFrom(faces, i + 1, maxArea, largest)

\* the loop started at the second face
getLargestFace_SkipsFirst(faces) == LargestFrom(faces, 2, 0, faces[1])

getLargestFace(faces) == LargestFrom(faces, 1, 0, faces[1])

\* the rectangle of lines 227-237 with the right edge left unclipped
faceRect_Unclipped(bm, face) ==
  LET padding == (Max(BoxWidth(face), BoxHeight(face)) * 3) \div 10
      left    == Max(0, face.left - padding)
      top     == Max(0, face.top - padding)
      right   == face.right + padding
      bottom  == Min(bm.h, face.bottom + padding)
  IN  [padding |-> padding, left |-> left, top |-> top,
       width |-> right - left, height |-> bottom - top]

\* lines 227-237: the padded bounding box clipped to the image.
\* (int) (max * 0.3) is the integer part of three tenths of max.
faceRect(bm, face) ==
  LET padding == (Max(BoxWidth(face), BoxHeight(face)) * 3) \div 10
      left    == Max(0, face.left - padding)
      top     == Max(0, face.top - padding)
      right   == Min(bm.w, face.right + padding)
      bottom  == Min(bm.h, face.bottom + padding)
  IN  [padding |-> padding, left |-> left, top |-> top,
       width |-> right - left, height |-> bottom - top]

\* Bitmap.createBitmap(source, x, y, width, height) throws
\* IllegalArgumentException unless the rectangle lies inside the source
createBitmapThrows(bm, rect) ==
  \/ rect.left < 0 \/ rect.top < 0
  \/ rect.width <= 0 \/ rect.height <= 0
  \/ rect.left + rect.width > bm.w
  \/ rect.top + rect.height > bm.h

\* lines 239-250 on the rectangle: NoBitmap when it is empty, and from the
\* catch block when createBitmap throws
cropRect(bm, rect) ==
  IF rect.width <= 0 \/ rect.height <= 0 THEN NoBitmap
  ELSE IF createBitmapThrows(bm, rect) THEN NoBitmap
  ELSE CreateBitmap(bm, rect.width, rect.height)

extractFaceRegion(bm, face) == cropRect(bm, faceRect(bm, face))

(***************************************************************************)
(* Feature groups.                                                         *)
(***************************************************************************)
isSkinTone(r, g, b) ==
  /\ r > 95 /\ g > 40 /\ b > 20
  /\ r > g /\ r > b
  /\ Abs(r - g) > 15
  /\ r - Min(g, b) > 15

extractOptimizedSkinTone(bm) ==
  LET r == bm.rgb[1]
      g == bm.rgb[2]
      b == bm.rgb[3]
      step  == Max(1, Min(bm.w, bm.h) \div 50)
      count == IF isSkinTone(r, g, b)
               THEN LoopCount(0, bm.h, step) * LoopCount(0, bm.w, step)
               ELSE 0
      sum(c)  == c * count
      sum2(c) == c * c * count
      mean(c) == sum(c) \div count
      std(c)  == ISqrt(sum2(c) \div count - mean(c) * mean(c))
  IN  [i \in 1..SkinToneLength |->
         IF count = 0 THEN 0
         ELSE CASE i = 1 -> FP(mean(r), 255)
                [] i = 2 -> FP(mean(g), 255)
                [] i = 3 -> FP(mean(b), 255)
                [] i = 4 -> FP(std(r), 255)
                [] i = 5 -> FP(std(g), 255)
                [] i = 6 -> FP(std(b), 255)
                [] i = 7 -> FP(count, (bm.w \div step) * (bm.h \div step))
                [] OTHER -> 0]

\* lines 444-455: the pixel ranges [startX, endX) x [startY, endY) of cell
\* (gx, gy)
gridCell(bm, gridSize, gx, gy) ==
  [startX |-> gx * (bm.w \div gridSize),
   endX   |-> Min((gx + 1) * (bm.w \div gridSize), bm.w),
   startY |-> gy * (bm.h \div gridSize),
   endY   |-> Min((gy + 1) * (bm.h \div gridSize), bm.h)]

extractOptimizedSpatialFeatures(bm) ==
  LET gridSize   == 3
      count(gx, gy) ==
        LoopCount(gridCell(bm, gridSize, gx, gy).startY,
                  gridCell(bm, gridSize, gx, gy).endY, 4)
          * LoopCount(gridCell(bm, gridSize, gx, gy).startX,
                      gridCell(bm, gridSize, gx, gy).endX, 4)
  IN  [i \in 1..SpatialLength |->
         LET cell == (i - 1) \div 3
             ch   == ((i - 1) % 3) + 1
             gy   == cell \div gridSize
             gx   == cell % gridSize
             n    == count(gx, gy)
         IN  IF n > 0 THEN FP(bm.rgb[ch] * n, n * 255) ELSE 0]

extractOptimizedHistogram(bm) ==
  LET totalPixels == LoopCount(0, bm.h, 4) * LoopCount(0, bm.w, 4)
  IN  [i \in 1..HistogramLength |->
         LET ch  == ((i - 1) \div 8) + 1
             bin == (i - 1) % 8
             hist == IF bm.rgb[ch] \div 32 = bin THEN totalPixels ELSE 0
         IN  FP(hist, totalPixels)]

(***************************************************************************)
(* featureCache: android.util.LruCache with maxSize CACHE_SIZE and the     *)
(* overridden sizeOf.  entries is in access order, eldest first.           *)
(***************************************************************************)
EmptyCache == [entries |-> <<>>, size |-> 0]

sizeOf(features) == Len(features) * 8

HasKey(cache, key) == \E i \in 1..Len(cache.entries) : cache.entries[i].key = key

IndexOfKey(cache, key) ==
  CHOOSE i \in 1..Len(cache.entries) : cache.entries[i].key = key

WithoutKey(cache, key) ==
  SelectSeq(cache.entries, LAMBDA e : e.key # key)

\* LruCache.get: a hit moves the entry to the most recently used end
LruGet(cache, key) ==
  IF HasKey(cache, key)
  THEN LET e == cache.entries[IndexOfKey(cache, key)]
       IN  [hit |-> TRUE, value |-> e.value,
            cache |-> [cache EXCEPT !.entries = Append(WithoutKey(cache, key), e)]]
  ELSE [hit |-> FALSE, value |-> <<>>, cache |-> cache]

RECURSIVE trimToSize(_, _)
trimToSize(cache, maxSize) ==
  IF cache.size <= maxSize \/ cache.entries = <<>> THEN cache
  ELSE trimToSize([entries |-> Tail(cache.entries),
                   size |-> cache.size - sizeOf(Head(cache.entries).value)],
                  maxSize)

\* LruCache.put: add sizeOf(value), replace a previous entry, then trim
LruPut(cache, key, value) ==
  LET previous == IF HasKey(cache, key)
                  THEN sizeOf(cache.entries[IndexOfKey(cache, key)].value)
                  ELSE 0
      added == [entries |-> Append(WithoutKey(cache, key),
                                   [key |-> key, value |-> value]),
                size |-> cache.size + sizeOf(value) - previous]
  IN  trimToSize(added, CACHE_SIZE)

\* Bitmap.Config.RGB_565.hashCode(): an identity hash, fixed within a process.
\* Every bitmap of a call has this config (inPreferredConfig, and the crops
\* and scaled copies inherit it).
ConfigHash == 31

\* The product stays far below 2^31 for the sizes of the model, so the
\* wrap-around of int does not occur; String.valueOf is injective, so the
\* key is kept as the number.
generateCacheKey(bm) == bm.w * bm.h * ConfigHash

(***************************************************************************)
(* extractFaceFeatures.                                                    *)
(***************************************************************************)
\* System.arraycopy(src, 0, dst, dstPos, src.length): throws, and copies
\* nothing, when the segment does not fit in dst
ArrayCopy(src, dst, dstPos) ==
  IF dstPos + Len(src) > Len(dst)
  THEN [threw |-> TRUE, arr |-> dst]
  ELSE [threw |-> FALSE,
        arr |-> [i \in 1..Len(dst) |->
                   IF i > dstPos /\ i <= dstPos + Len(src)
                   THEN src[i - dstPos] ELSE dst[i]]]

\* lines 369-384: the three segments copied one after the other into the
\* new vector; layout is the segments in the order they are written, each
\* with the offset it is written at
copySegments(skinTone, spatial, histogram) ==
  LET features0 == [i \in 1..FeatureVectorLength |-> 0]
      copy1     == ArrayCopy(skinTone, features0, 0)
      index1    == Len(skinTone)
      copy2     == ArrayCopy(spatial, copy1.arr, index1)
      index2    == index1 + Len(spatial)
      copy3     == ArrayCopy(histogram, copy2.arr, index2)
      threw     == copy1.threw \/ copy2.threw \/ copy3.threw
  IN  [threw |-> threw,
       features |-> IF threw THEN <<>> ELSE copy3.arr,
       layout |-> << [name |-> "skinTone", offset |-> 0, len |-> Len(skinTone)],
                     [name |-> "spatial", offset |-> index1, len |-> Len(spatial)],
                     [name |-> "histogram", offset |-> index2, len |-> Len(histogram)] >>]

\* lines 368-384: the vector assembled from the pixels of the bitmap
assembleFeatures(faceBitmap) ==
  copySegments(extractOptimizedSkinTone(faceBitmap),
               extractOptimizedSpatialFeatures(faceBitmap),
               extractOptimizedHistogram(faceBitmap))

\* lines 386-389: the assembled vector is cached and returned, unless the
\* assembly threw
cacheAndReturn(made, cache, cacheKey) ==
  IF made.threw
  THEN [threw |-> TRUE, isNull |-> FALSE, features |-> <<>>,
        fromCache |-> FALSE, cache |-> cache, layout |-> made.layout]
  ELSE [threw |-> FALSE, isNull |-> FALSE, features |-> made.features,
        fromCache |-> FALSE,
        cache |-> LruPut(cache, cacheKey, made.features),
        layout |-> made.layout]

\* lines 362-366: a cached vector is returned as it is
returnCachedOr(got, faceBitmap, cacheKey) ==
  IF got.hit
  THEN [threw |-> FALSE, isNull |-> FALSE, features |-> got.value,
        fromCache |-> TRUE, cache |-> got.cache, layout |-> <<>>]
  ELSE cacheAndReturn(assembleFeatures(faceBitmap), got.cache, cacheKey)

\* extractFaceFeatures returning the cache's answer without the null check
returnCached(got) ==
  [threw |-> FALSE, isNull |-> ~got.hit, features |-> got.value,
   fromCache |-> TRUE, cache |-> got.cache, layout |-> <<>>]

extractFaceFeatures_NoNullCheck(faceBitmap, cache) ==
  returnCached(LruGet(cache, generateCacheKey(faceBitmap)))

\* The result of one call: threw (an exception left the method), isNull (it
\* returned null), features (the returned vector), fromCache, the cache
\* after the call, and layout: the segments in the order the method writes
\* them, each with the offset it is written at.
extractFaceFeatures(faceBitmap, cache) ==
  returnCachedOr(LruGet(cache, generateCacheKey(faceBitmap)), faceBitmap,
                 generateCacheKey(faceBitmap))

\* what the log of a call keeps of one extraction
Logged(region, e) ==
  [region |-> region, threw |-> e.threw, isNull |-> e.isNull,
   features |-> e.features, fromCache |-> e.fromCache, layout |-> e.layout]

(***************************************************************************)
(* Scorer and decision.                                                    *)
(***************************************************************************)
RECURSIVE SumSquares(_, _, _)
SumSquares(f1, f2, i) ==
  IF i = 0 THEN 0
  ELSE (f1[i] - f2[i]) * (f1[i] - f2[i]) + SumSquares(f1, f2, i - 1)

\* in thousandths
calculateEuclideanDistance(features1, features2) ==
  ISqrt(SumSquares(features1, features2, Min(Len(features1), Len(features2))))

\* A confidence c is held as c * ConfDen, a normalized distance n as n * ConfDen
ConfDen == FaceScale * FallbackScale

NormalizedDistance_Unclamped(distance, scale) == distance * (ConfDen \div scale)

\* Math.min(distance / scale, 1.0)
NormalizedDistance(distance, scale) ==
  Min(distance * (ConfDen \div scale), ConfDen)

\* (1 - normalizedDistance) * 100
ConfidenceOf(normalizedDistance) == (ConfDen - normalizedDistance) * 100

ResultKeys == {"isMatch", "confidence", "message"}

FaceRegionVerdict_StrictThreshold(distance) ==
  LET confidence == ConfidenceOf(NormalizedDistance(distance, FaceScale))
      isMatch    == confidence > FaceThreshold * ConfDen
  IN  [isMatch |-> isMatch, confidence |-> confidence, keys |-> ResultKeys,
       message |-> IF isMatch THEN "Face verified successfully!"
                   ELSE "Face does not match. Confidence: %"]

\* lines 159-178: the result map of the face-region path
FaceRegionVerdict(distance) ==
  LET confidence == ConfidenceOf(NormalizedDistance(distance, FaceScale))
      isMatch    == confidence >= FaceThreshold * ConfDen
  IN  [isMatch |-> isMatch, confidence |-> confidence, keys |-> ResultKeys,
       message |-> IF isMatch THEN "Face verified successfully!"
                   ELSE "Face does not match. Confidence: %"]

\* the fallback verdict with the scale written 35.0
FallbackVerdict_Scale35(distance) ==
  LET confidence == ConfidenceOf(NormalizedDistance(distance, 10 * FallbackScale))
      isMatch    == confidence >= FallbackThreshold * ConfDen
  IN  [isMatch |-> isMatch, confidence |-> confidence, keys |-> ResultKeys,
       message |-> IF isMatch THEN "Face verified successfully! (fallback mode)"
                   ELSE "Face does not match. Confidence: % (fallback mode)"]

\* lines 752-765: the result map of the fallback path
FallbackVerdict(distance) ==
  LET confidence == ConfidenceOf(NormalizedDistance(distance, FallbackScale))
      isMatch    == confidence >= FallbackThreshold * ConfDen
  IN  [isMatch |-> isMatch, confidence |-> confidence, keys |-> ResultKeys,
       message |-> IF isMatch THEN "Face verified successfully! (fallback mode)"
                   ELSE "Face does not match. Confidence: % (fallback mode)"]

(***************************************************************************)
(* The promise of a call.  settles counts the calls of resolve and reject; *)
(* only the first one sets the outcome.                                    *)
(***************************************************************************)
NoResult == [isMatch |-> FALSE, confidence |-> 0, keys |-> {}, message |-> ""]

PendingPromise ==
  [state |-> "pending", settles |-> 0, code |-> "", message |-> "",
   result |-> NoResult]

Resolve(p, result) ==
  IF p.state = "pending"
  THEN [p EXCEPT !.state = "resolved", !.settles = @ + 1, !.result = result]
  ELSE [p EXCEPT !.settles = @ + 1]

Reject(p, code, message) ==
  IF p.state = "pending"
  THEN [p EXCEPT !.state = "rejected", !.settles = @ + 1, !.code = code,
                 !.message = message]
  ELSE [p EXCEPT !.settles = @ + 1]

(***************************************************************************)
(* The bitmaps a call acquires: "none" (never created), "live", "recycled".*)
(***************************************************************************)
NoBitmaps ==
  [bitmap1 |-> "none", bitmap2 |-> "none", faceBitmap1 |-> "none",
   faceBitmap2 |-> "none", resized1 |-> "none", resized2 |-> "none"]

Acquired(bm) == IF IsNull(bm) THEN "none" ELSE "live"

Recycled(status) == IF status = "live" THEN "recycled" ELSE status

\* cleanup(bitmap1, bitmap2)
cleanup(bs) ==
  [bs EXCEPT !.bitmap1 = Recycled(@), !.bitmap2 = Recycled(@)]

(***************************************************************************)
(* performFallbackComparison: the outcome is the promise, the cache, the   *)
(* bitmaps and the extractions made.                                       *)
(***************************************************************************)
\* lines 741-772 once both extractions are known; failed is the promise
\* after the catch block
fallbackOutcome(resized1, resized2, e1, e2, p, failed, created) ==
  IF e1.threw
  THEN \* catch (Exception e), from the first extraction
       [promise |-> failed, cache |-> e1.cache, bitmaps |-> created,
        extracts |-> <<Logged(resized1, e1)>>]
  ELSE IF e2.threw
  THEN \* catch (Exception e), from the second extraction
       [promise |-> failed, cache |-> e2.cache, bitmaps |-> created,
        extracts |-> <<Logged(resized1, e1), Logged(resized2, e2)>>]
  ELSE IF e1.isNull \/ e2.isNull
  THEN \* catch (Exception e): features.length of null, after the recycles
       [promise |-> failed, cache |-> e2.cache,
        bitmaps |-> [created EXCEPT !.resized1 = "recycled", !.resized2 = "recycled"],
        extracts |-> <<Logged(resized1, e1), Logged(resized2, e2)>>]
  ELSE [promise |-> Resolve(p, FallbackVerdict(
                      calculateEuclideanDistance(e1.features, e2.features))),
        cache |-> e2.cache,
        bitmaps |-> [created EXCEPT !.resized1 = "recycled", !.resized2 = "recycled"],
        extracts |-> <<Logged(resized1, e1), Logged(resized2, e2)>>]

\* the second extraction starts from the cache the first one left
fallbackExtractions(resized1, resized2, e1, p, failed, created) ==
  fallbackOutcome(resized1, resized2, e1, extractFaceFeatures(resized2, e1.cache),
                  p, failed, created)

fallbackOn(resized1, resized2, p, failed, cache, bs) ==
  fallbackExtractions(resized1, resized2, extractFaceFeatures(resized1, cache),
                      p, failed,
                      [bs EXCEPT !.resized1 = "live", !.resized2 = "live"])

\* performFallbackComparison whose catch block does not reject
performFallbackComparison_SilentCatch(bitmap1, bitmap2, p, cache, bs) ==
  fallbackOn(CreateScaledBitmap(bitmap1, FallbackTargetSize, FallbackTargetSize),
             CreateScaledBitmap(bitmap2, FallbackTargetSize, FallbackTargetSize),
             p, p, cache, bs)

performFallbackComparison(bitmap1, bitmap2, p, cache, bs) ==
  fallbackOn(CreateScaledBitmap(bitmap1, FallbackTargetSize, FallbackTargetSize),
             CreateScaledBitmap(bitmap2, FallbackTargetSize, FallbackTargetSize),
             p, Reject(p, "ERROR", "Fallback comparison failed: "), cache, bs)

(***************************************************************************)
(* The try block of the second success listener (lines 128-187): the       *)
(* face-region comparison.  exitPath names the way out.                    *)
(***************************************************************************)
\* lines 146-186 once both extractions are known; thrown is the promise
\* after the catch block
faceRegionOutcome(faceBitmap1, faceBitmap2, e1, e2, p, thrown, cropped) ==
  IF e1.threw
  THEN [promise |-> thrown, cache |-> e1.cache, bitmaps |-> cleanup(cropped),
        extracts |-> <<Logged(faceBitmap1, e1)>>, exitPath |-> "exception"]
  ELSE IF e2.threw
  THEN [promise |-> thrown, cache |-> e2.cache, bitmaps |-> cleanup(cropped),
        extracts |-> <<Logged(faceBitmap1, e1), Logged(faceBitmap2, e2)>>,
        exitPath |-> "exception"]
  ELSE IF e1.isNull \/ e2.isNull
  THEN [promise |-> thrown, cache |-> e2.cache,
        bitmaps |-> cleanup([cropped EXCEPT !.faceBitmap1 = "recycled",
                                            !.faceBitmap2 = "recycled"]),
        extracts |-> <<Logged(faceBitmap1, e1), Logged(faceBitmap2, e2)>>,
        exitPath |-> "exception"]
  ELSE [promise |-> Resolve(p, FaceRegionVerdict(
                      calculateEuclideanDistance(e1.features, e2.features))),
        cache |-> e2.cache,
        bitmaps |-> cleanup([cropped EXCEPT !.faceBitmap1 = "recycled",
                                            !.faceBitmap2 = "recycled"]),
        extracts |-> <<Logged(faceBitmap1, e1), Logged(faceBitmap2, e2)>>,
        exitPath |-> "scored"]

faceRegionExtractions(faceBitmap1, faceBitmap2, e1, p, thrown, cropped) ==
  faceRegionOutcome(faceBitmap1, faceBitmap2, e1,
                    extractFaceFeatures(faceBitmap2, e1.cache), p, thrown, cropped)

\* the null check of line 137 written with && : one null crop goes on to
\* the extractions, where a null first crop throws at generateCacheKey
faceRegionsCompared_BothNull(faceBitmap1, faceBitmap2, p, cache, bs) ==
  IF IsNull(faceBitmap1) /\ IsNull(faceBitmap2)
  THEN [promise |-> Reject(p, "ERROR", "Failed to extract face regions"),
        cache |-> cache, bitmaps |-> cleanup(bs),
        extracts |-> <<>>, exitPath |-> "extractFail"]
  ELSE IF IsNull(faceBitmap1)
  THEN [promise |-> Reject(p, "ERROR", "exception message"),
        cache |-> cache,
        bitmaps |-> cleanup([bs EXCEPT !.faceBitmap2 = "live"]),
        extracts |-> <<>>, exitPath |-> "exception"]
  ELSE faceRegionExtractions(faceBitmap1, faceBitmap2,
                             extractFaceFeatures(faceBitmap1, cache), p,
                             Reject(p, "ERROR", "exception message"),
                             [bs EXCEPT !.faceBitmap1 = "live",
                                        !.faceBitmap2 = Acquired(faceBitmap2)])

\* lines 137-147: the null check of the two crops, then the extractions
faceRegionsCompared(faceBitmap1, faceBitmap2, p, cache, bs) ==
  IF IsNull(faceBitmap1) \/ IsNull(faceBitmap2)
  THEN [promise |-> Reject(p, "ERROR", "Failed to extract face regions"),
        cache |-> cache,
        bitmaps |-> cleanup([bs EXCEPT !.faceBitmap1 = Acquired(faceBitmap1),
                                       !.faceBitmap2 = Acquired(faceBitmap2)]),
        extracts |-> <<>>, exitPath |-> "extractFail"]
  ELSE faceRegionExtractions(faceBitmap1, faceBitmap2,
                             extractFaceFeatures(faceBitmap1, cache), p,
                             Reject(p, "ERROR", "exception message"),
                             [bs EXCEPT !.faceBitmap1 = "live", !.faceBitmap2 = "live"])

faceRegionComparison(bitmap1, bitmap2, faces1, faces2, p, cache, bs) ==
  faceRegionsCompared(extractFaceRegion(bitmap1, getLargestFace(faces1)),
                      extractFaceRegion(bitmap2, getLargestFace(faces2)),
                      p, cache, bs)

\* the failure listeners (lines 189-193 and 195-199)
onDetectionFailure_GenericError(p) ==
  Reject(p, "ERROR", "Face detection failed: ")

onDetectionFailure(p) ==
  Reject(p, "DETECTION_ERROR", "Face detection failed: ")

(***************************************************************************)
(* State.                                                                  *)
(*   pc           where the call is: "idle", "detect1" / "detect2" (the    *)
(*                detector is working on the first / second image), "done" *)
(*   call         the arguments, the loaded bitmaps, the detector's answers*)
(*   promise      the promise of the call                                  *)
(*   bitmaps      the status of each bitmap the call acquired              *)
(*   featureCache the module's LruCache                                    *)
(*   extracts     the extractFaceFeatures calls of the call, in order      *)
(*   exitPath     the way the call ended                                   *)
(*   usedFallback performFallbackComparison ran                            *)
(*   prev         the previous call, its outcome and its extractions       *)
(*   ncalls       number of calls returned                                 *)
(*   score        the scorer applied to a distance (specification          *)
(*                SpecScore)                                               *)
(*   probe        one function of the module applied to inputs drawn from  *)
(*                a bounded set, with its result                           *)
(*   js           the JavaScript layer (utils/faceVerification.js): one    *)
(*                verifyFaceOffline call                                   *)
(***************************************************************************)
NoCall ==
  [path1 |-> "", path2 |-> "", bitmap1 |-> NoBitmap, bitmap2 |-> NoBitmap,
   faces1 |-> <<>>, faces2 |-> <<>>]

NoPrev ==
  [valid |-> FALSE, call |-> NoCall, exitPath |-> "", promise |-> PendingPromise,
   extracts |-> <<>>]

NoScore == [mode |-> "none", distance |-> 0, result |-> NoResult]

\* no function has been applied yet
NoProbe == [fn |-> "none"]

\* the empty string
NoString == [len |-> 0, pat |-> <<"A">>]

NoUri == [isString |-> TRUE, prefix |-> "", path |-> ""]

NoJsResult ==
  [isMatch |-> FALSE, confidence |-> [num |-> 0, den |-> 1], message |-> ""]

\* FaceComparison.compareFaces has not settled
NoNative == [kind |-> "none", result |-> NoJsResult]

\* no verifyFaceOffline call is running; base64Cache is the module's Map,
\* in insertion order, and hasNative tells whether NativeModules has
\* FaceComparison
JsIdle ==
  [pc |-> "idle", calls |-> 0, hasNative |-> FALSE, base64Cache |-> <<>>,
   savedPhotoPath |-> "", capturedPhotoUri |-> NoUri, capturedPath |-> "",
   native |-> NoNative, reads |-> <<>>, savedImage |-> NoString,
   capturedImage |-> NoString, settled |-> "pending", result |-> NoJsResult]

Init ==
  /\ pc = "idle"
  /\ call = NoCall
  /\ promise = PendingPromise
  /\ bitmaps = NoBitmaps
  /\ featureCache = EmptyCache
  /\ extracts = <<>>
  /\ exitPath = ""
  /\ usedFallback = FALSE
  /\ prev = NoPrev
  /\ ncalls = 0
  /\ score = NoScore
  /\ probe = NoProbe
  /\ js = JsIdle

\* compareFaces, up to the first detector.process (lines 70-103)
CompareFaces(imagePath1, imagePath2) ==
  /\ pc = "idle"
  /\ ncalls < MaxCalls
  /\ LET bitmap1 == loadAndOrientBitmap(imagePath1)
         bitmap2 == loadAndOrientBitmap(imagePath2)
     IN  /\ call' = [NoCall EXCEPT !.path1 = imagePath1, !.path2 = imagePath2,
                                   !.bitmap1 = bitmap1, !.bitmap2 = bitmap2]
         /\ bitmaps' = [NoBitmaps EXCEPT !.bitmap1 = Acquired(bitmap1),
                                         !.bitmap2 = Acquired(bitmap2)]
         /\ IF IsNull(bitmap1) \/ IsNull(bitmap2)
            THEN /\ promise' = Reject(PendingPromise, "ERROR", "Failed to load images")
                 /\ exitPath' = "loadFail"
                 /\ pc' = "done"
            ELSE /\ promise' = PendingPromise
                 /\ exitPath' = ""
                 /\ pc' = "detect1"
  /\ extracts' = <<>>
  /\ usedFallback' = FALSE
  /\ UNCHANGED <<featureCache, prev, ncalls, score, probe, js>>

\* the fallback branch of either success listener, with its cleanup
Fallback(path) ==
  LET fb == performFallbackComparison(call.bitmap1, call.bitmap2, promise,
                                      featureCache, bitmaps)
  IN  /\ promise' = fb.promise
      /\ featureCache' = fb.cache
      /\ bitmaps' = cleanup(fb.bitmaps)
      /\ extracts' = fb.extracts
      /\ usedFallback' = TRUE
      /\ exitPath' = path
      /\ pc' = "done"

\* success listener of the first image (lines 104-194)
Detect1Success(faces1) ==
  /\ pc = "detect1"
  /\ IF faces1 = <<>>
     THEN Fallback("noFace1") /\ UNCHANGED call
     ELSE /\ call' = [call EXCEPT !.faces1 = faces1]
          /\ pc' = "detect2"
          /\ UNCHANGED <<promise, featureCache, bitmaps, extracts, usedFallback, exitPath>>
  /\ UNCHANGED <<prev, ncalls, score, probe, js>>

\* failure listener of the first image (lines 195-199)
Detect1Failure ==
  /\ pc = "detect1"
  /\ promise' = onDetectionFailure(promise)
  /\ bitmaps' = cleanup(bitmaps)
  /\ exitPath' = "detect1Fail"
  /\ pc' = "done"
  /\ UNCHANGED <<call, featureCache, extracts, usedFallback, prev, ncalls, score, probe, js>>

\* success listener of the second image (lines 117-188)
Detect2Success(faces2) ==
  /\ pc = "detect2"
  /\ call' = [call EXCEPT !.faces2 = faces2]
  /\ IF faces2 = <<>>
     THEN Fallback("noFace2")
     ELSE LET out == faceRegionComparison(call.bitmap1, call.bitmap2, call.faces1,
                                          faces2, promise, featureCache, bitmaps)
          IN  /\ promise' = out.promise
              /\ featureCache' = out.cache
              /\ bitmaps' = out.bitmaps
              /\ extracts' = out.extracts
              /\ exitPath' = out.exitPath
              /\ pc' = "done"
              /\ UNCHANGED usedFallback
  /\ UNCHANGED <<prev, ncalls, score, probe, js>>

\* failure listener of the second image (lines 189-193)
Detect2Failure ==
  /\ pc = "detect2"
  /\ promise' = onDetectionFailure(promise)
  /\ bitmaps' = cleanup(bitmaps)
  /\ exitPath' = "detect2Fail"
  /\ pc' = "done"
  /\ UNCHANGED <<call, featureCache, extracts, usedFallback, prev, ncalls, score, probe, js>>

\* the caller has the outcome; the module is ready for the next call
Return ==
  /\ pc = "done"
  /\ prev' = [valid |-> TRUE, call |-> call, exitPath |-> exitPath,
              promise |-> promise, extracts |-> extracts]
  /\ ncalls' = ncalls + 1
  /\ pc' = "idle"
  /\ call' = NoCall
  /\ promise' = PendingPromise
  /\ bitmaps' = NoBitmaps
  /\ extracts' = <<>>
  /\ exitPath' = ""
  /\ usedFallback' = FALSE
  /\ UNCHANGED <<featureCache, score, probe, js>>

Next ==
  \/ \E imagePath1 \in Paths, imagePath2 \in Paths : CompareFaces(imagePath1, imagePath2)
  \/ \E faces1 \in FaceLists : Detect1Success(faces1)
  \/ Detect1Failure
  \/ \E faces2 \in FaceLists : Detect2Success(faces2)
  \/ Detect2Failure
  \/ Return

Spec == Init /\ [][Next]_vars

(***************************************************************************)
(* SpecScore: the scorer and the decision of each path applied to every    *)
(* distance of 0 .. MaxDistance thousandths.                               *)
(***************************************************************************)
ScoreFaceRegion(distance) ==
  /\ score.mode = "none"
  /\ score' = [mode |-> "face", distance |-> distance,
               result |-> FaceRegionVerdict(distance)]
  /\ UNCHANGED <<pc, call, promise, bitmaps, featureCache, extracts, exitPath,
                 usedFallback, prev, ncalls, probe, js>>

ScoreFallback(distance) ==
  /\ score.mode = "none"
  /\ score' = [mode |-> "fallback", distance |-> distance,
               result |-> FallbackVerdict(distance)]
  /\ UNCHANGED <<pc, call, promise, bitmaps, featureCache, extracts, exitPath,
                 usedFallback, prev, ncalls, probe, js>>

NextScore ==
  \/ \E distance \in 0..MaxDistance : ScoreFaceRegion(distance)
  \/ \E distance \in 0..MaxDistance : ScoreFallback(distance)

SpecScore == Init /\ [][NextScore]_vars

(***************************************************************************)
(* Properties.                                                             *)
(***************************************************************************)
Done == pc = "done"

NoFaceExit == exitPath \in {"noFace1", "noFace2"}

\* the call went as far as comparing the two images
Compared == exitPath \in {"noFace1", "noFace2", "exception", "scored"}

Hundred == 100 * ConfDen

\* C1: when both arguments are the same readable image, the call resolves
\* with confidence 100 and isMatch true, with or without a detected face,
\* and a repeated call has the same outcome.
C1_IdenticalImagesMatch ==
  /\ (Done /\ Compared /\ call.path1 = call.path2)
       => /\ promise.state = "resolved"
          /\ promise.result.confidence = Hundred
          /\ promise.result.isMatch
  /\ (Done /\ prev.valid /\ prev.call = call /\ prev.exitPath = exitPath)
       => promise = prev.promise

\* the segments of a layout follow one another from offset 0
Consecutive(layout) ==
  \A k \in 1..Len(layout) :
    layout[k].offset = (IF k = 1 THEN 0 ELSE layout[k - 1].offset + layout[k - 1].len)

\* C2: every extraction from pixels returns a vector of the one fixed length
\* 64, whose skin-tone, spatial and histogram segments are written at
\* consecutive offsets that all lie inside the vector.
C2_FixedLengthLayout ==
  \A i \in 1..Len(extracts) :
    ~extracts[i].fromCache =>
      /\ ~extracts[i].threw
      /\ Len(extracts[i].features) = FeatureVectorLength
      /\ Consecutive(extracts[i].layout)
      /\ \A k \in 1..Len(extracts[i].layout) :
           extracts[i].layout[k].offset + extracts[i].layout[k].len
             <= FeatureVectorLength

FiveGroups == <<"skinTone", "spatial", "histogram", "texture", "edge">>

\* C3: the vector the call scores is assembled from the five feature groups
\* skin tone, spatial grid, histogram, texture and edge, in this order.
C3_FiveFeatureGroups ==
  \A i \in 1..Len(extracts) :
    ~extracts[i].fromCache =>
      [k \in 1..Len(extracts[i].layout) |-> extracts[i].layout[k].name] = FiveGroups

\* C4: a face-region result has isMatch exactly when its confidence is at
\* least 70, a fallback result exactly when its confidence is at least 85.
C4_ThresholdDecision ==
  /\ score.mode = "face" =>
       (score.result.isMatch <=> score.result.confidence >= FaceThreshold * ConfDen)
  /\ score.mode = "fallback" =>
       (score.result.isMatch <=> score.result.confidence >= FallbackThreshold * ConfDen)

C4_Witness ==
  /\ score.mode = "face"
  /\ score.result.confidence = FaceThreshold * ConfDen
  /\ score.result.isMatch

ScaleOf(mode) == IF mode = "face" THEN FaceScale ELSE FallbackScale

\* C5: for a distance d the scorer's confidence is (1 - min(d / scale, 1)) * 100,
\* with scale 5.0 on the face-region path and 3.5 on the fallback path, and
\* lies in [0, 100].
C5_ConfidenceFormula ==
  score.mode # "none" =>
    LET scale == ScaleOf(score.mode)
    IN  /\ score.result.confidence
             = (ConfDen \div scale) * (scale - Min(score.distance, scale)) * 100
        /\ score.result.confidence >= 0
        /\ score.result.confidence <= Hundred

C5_Witness ==
  /\ score.mode = "fallback"
  /\ score.distance > FallbackScale
  /\ score.result.confidence = 0

C7_NoFaceResolvesByFallback ==
  (Done /\ NoFaceExit) =>
    /\ usedFallback
    /\ promise.state = "resolved"
    /\ promise.result.keys = ResultKeys

\* C8: when no face is detected in either image, the call ends with a
\* "No face detected" error and no verdict.
C8_NoFaceDetectedError ==
  (Done /\ NoFaceExit) =>
    /\ promise.state = "rejected"
    /\ promise.message = "No face detected"

\* C9: a detector failure on either image rejects the promise with
\* DETECTION_ERROR, a code the no-face outcome never has; the fallback does
\* not run, nothing is extracted and no matching verdict is produced.
C9_DetectionErrorDistinct ==
  /\ (Done /\ exitPath \in {"detect1Fail", "detect2Fail"}) =>
       /\ promise.state = "rejected"
       /\ promise.code = "DETECTION_ERROR"
       /\ ~usedFallback
       /\ extracts = <<>>
       /\ ~promise.result.isMatch
  /\ (Done /\ NoFaceExit) => promise.code # "DETECTION_ERROR"

C9_Witness ==
  /\ Done
  /\ exitPath = "detect2Fail"
  /\ promise.code = "DETECTION_ERROR"

\* C10: a call settles its promise exactly once, resolved with isMatch,
\* confidence and message or rejected, on every way out.
C10_SettlesExactlyOnce ==
  /\ promise.settles <= 1
  /\ Done => /\ promise.settles = 1
             /\ promise.state \in {"resolved", "rejected"}
  /\ promise.state = "resolved" => promise.result.keys = ResultKeys
  /\ promise.state = "rejected" => promise.result = NoResult

C10_Witness ==
  /\ Done
  /\ exitPath = "noFace1"
  /\ promise.settles = 1

\* C11: when a compareFaces call has ended, whichever way it ended, every
\* bitmap it acquired (the two loaded images, the two face crops, the two
\* resized copies of the fallback) has been recycled.
C11_AllBitmapsReleased ==
  Done => \A field \in DOMAIN bitmaps : bitmaps[field] # "live"

\* the padded, clipped rectangle of the largest face is empty
EmptyRect(bm, faces) ==
  \/ faceRect(bm, getLargestFace(faces)).width <= 0
  \/ faceRect(bm, getLargestFace(faces)).height <= 0

\* C15: when both images have a face and the padded, clipped rectangle of
\* either has no width or no height, the call is rejected as an extraction
\* failure: nothing is extracted or scored and the fallback does not run.
C15_EmptyRegionRejected ==
  (/\ Done
   /\ call.faces1 # <<>> /\ call.faces2 # <<>>
   /\ EmptyRect(call.bitmap1, call.faces1) \/ EmptyRect(call.bitmap2, call.faces2))
  => /\ promise.state = "rejected"
     /\ promise.message = "Failed to extract face regions"
     /\ promise.result = NoResult
     /\ extracts = <<>>
     /\ ~usedFallback

C15_Witness ==
  /\ Done
  /\ call.faces1 # <<>> /\ call.faces2 # <<>>
  /\ ~EmptyRect(call.bitmap1, call.faces1)
  /\ EmptyRect(call.bitmap2, call.faces2)
  /\ promise.state = "rejected"

(***************************************************************************)
(* SpecDistance: calculateEuclideanDistance applied to every pair of       *)
(* vectors of at most MaxVectorLen values.                                 *)
(***************************************************************************)
MaxVectorLen == 3

\* feature values 0.0 and 1.0, in thousandths
FeatureValues == {0, 1000}

Vectors == UNION {[1..n -> FeatureValues] : n \in 0..MaxVectorLen}

\* the method has no throw statement and no call that throws on two arrays
EuclideanDistance(features1, features2) ==
  /\ probe.fn = "none"
  /\ probe' = [fn |-> "calculateEuclideanDistance",
               features1 |-> features1, features2 |-> features2,
               threw |-> FALSE,
               distance |-> calculateEuclideanDistance(features1, features2)]
  /\ UNCHANGED <<callVars, score, js>>

NextDistance ==
  \E features1 \in Vectors, features2 \in Vectors :
     EuclideanDistance(features1, features2)

SpecDistance == Init /\ [][NextDistance]_vars

\* C12: applied to two vectors of different lengths, calculateEuclideanDistance
\* signals an error instead of returning a distance computed over the common
\* prefix.
C12_LengthMismatchSignalled ==
  (/\ probe.fn = "calculateEuclideanDistance"
   /\ Len(probe.features1) # Len(probe.features2))
  => probe.threw

(***************************************************************************)
(* SpecCache: featureCache as the constructor builds it (maxSize           *)
(* CACHE_SIZE, sizeOf of lines 57-60), driven by the put of                *)
(* extractFaceFeatures (line 387) and its get (line 364), on the keys of   *)
(* the bitmaps of at most MaxKeySide x MaxKeySide pixels.                  *)
(***************************************************************************)
MaxPuts == 2

MaxKeySide == 4

CacheKeys ==
  {generateCacheKey([w |-> w, h |-> h, rgb |-> SkinColour]) :
     w \in 1..MaxKeySide, h \in 1..MaxKeySide}

\* the vector extractFaceFeatures would store under a key: new double[64]
VectorFor(key) == [i \in 1..FeatureVectorLength |-> key % 1000]

NoGet == [key |-> 0, hit |-> FALSE, value |-> <<>>]

PutsOf(p) == IF p.fn = "featureCache" THEN p.puts ELSE <<>>

\* featureCache.put(cacheKey, features)
CachePut(key) ==
  /\ probe.fn \in {"none", "featureCache"}
  /\ Len(PutsOf(probe)) < MaxPuts
  /\ featureCache' = LruPut(featureCache, key, VectorFor(key))
  /\ probe' = [fn |-> "featureCache", puts |-> Append(PutsOf(probe), key),
               got |-> NoGet]
  /\ UNCHANGED <<pc, call, promise, bitmaps, extracts, exitPath, usedFallback,
                 prev, ncalls, score, js>>

cacheGot(key, got) == [key |-> key, hit |-> got.hit, value |-> got.value]

\* featureCache.get(cacheKey)
CacheGet(key) ==
  /\ probe.fn = "featureCache"
  /\ featureCache' = LruGet(featureCache, key).cache
  /\ probe' = [probe EXCEPT !.got = cacheGot(key, LruGet(featureCache, key))]
  /\ UNCHANGED <<pc, call, promise, bitmaps, extracts, exitPath, usedFallback,
                 prev, ncalls, score, js>>

NextCache ==
  \/ \E key \in CacheKeys : CachePut(key)
  \/ \E key \in CacheKeys : CacheGet(key)

SpecCache == Init /\ [][NextCache]_vars

\* the keys other than key put after the last put of key
OthersSince(puts, key) ==
  LET last == CHOOSE i \in 1..Len(puts) :
                /\ puts[i] = key
                /\ \A j \in (i + 1)..Len(puts) : puts[j] # key
  IN  {puts[j] : j \in (last + 1)..Len(puts)}

\* C13: a lookup of a key that was put returns the vector put under it, as
\* long as fewer than CACHE_SIZE other keys have been put since.
C13_RetainsUpToCapacity ==
  (/\ probe.fn = "featureCache"
   /\ probe.got.key # 0
   /\ \E i \in 1..Len(probe.puts) : probe.puts[i] = probe.got.key
   /\ Cardinality(OthersSince(probe.puts, probe.got.key)) < CACHE_SIZE)
  => (probe.got.hit /\ probe.got.value = VectorFor(probe.got.key))

(***************************************************************************)
(* SpecRegion: extractFaceRegion applied to every image of at most         *)
(* MaxImageSide x MaxImageSide pixels and every bounding box of positive   *)
(* width and height that lies inside it.                                   *)
(***************************************************************************)
MaxImageSide == 6

Images ==
  {[w |-> w, h |-> h, rgb |-> SkinColour] :
     w \in 1..MaxImageSide, h \in 1..MaxImageSide}

BoxesInside(bm) ==
  {bx \in [left : 0..bm.w, top : 0..bm.h, right : 0..bm.w, bottom : 0..bm.h] :
     bx.left < bx.right /\ bx.top < bx.bottom}

ExtractFaceRegion(bm, face) ==
  /\ probe.fn = "none"
  /\ probe' = [fn |-> "extractFaceRegion", bitmap |-> bm, face |-> face,
               rect |-> faceRect(bm, face),
               region |-> extractFaceRegion(bm, face)]
  /\ UNCHANGED <<callVars, score, js>>

NextRegion ==
  \E bm \in Images : \E face \in BoxesInside(bm) : ExtractFaceRegion(bm, face)

SpecRegion == Init /\ [][NextRegion]_vars

\* three tenths of the larger side of a box, rounded down
ThirtyPercent(face) ==
  CHOOSE p \in 0..Max(BoxWidth(face), BoxHeight(face)) :
    /\ 10 * p <= 3 * Max(BoxWidth(face), BoxHeight(face))
    /\ 10 * (p + 1) > 3 * Max(BoxWidth(face), BoxHeight(face))

\* C14: for a bounding box of positive width and height inside the image,
\* edges included, extractFaceRegion crops the box padded by 30% of its
\* larger side and clipped to the image: the rectangle has positive width
\* and height, lies inside the image, and a bitmap of its size is returned.
C14_CropInsideImage ==
  probe.fn = "extractFaceRegion" =>
    LET bm == probe.bitmap
        face == probe.face
        rect == probe.rect
        pad == ThirtyPercent(face)
    IN  /\ rect.left = Max(0, face.left - pad)
        /\ rect.top = Max(0, face.top - pad)
        /\ rect.left + rect.width = Min(bm.w, face.right + pad)
        /\ rect.top + rect.height = Min(bm.h, face.bottom + pad)
        /\ 0 <= rect.left /\ 0 <= rect.top
        /\ rect.left + rect.width <= bm.w
        /\ rect.top + rect.height <= bm.h
        /\ rect.width > 0 /\ rect.height > 0
        /\ ~IsNull(probe.region)
        /\ probe.region.w = rect.width /\ probe.region.h = rect.height

\* a box on the right and bottom edges whose padding is cut by all four edges
C14_Witness ==
  /\ probe.fn = "extractFaceRegion"
  /\ probe.rect.padding > 0
  /\ probe.face.right = probe.bitmap.w
  /\ probe.face.bottom = probe.bitmap.h
  /\ probe.face.left < probe.rect.padding
  /\ probe.rect.left = 0
  /\ probe.rect.width = probe.bitmap.w

(***************************************************************************)
(* SpecLargest: getLargestFace applied to every list of 1 .. MaxFaces      *)
(* faces (the callers pass no empty list: lines 107 and 120).              *)
(***************************************************************************)
MaxFaces == 3

\* bounding boxes of areas 6, 6, 1, 0 and 9
FaceBoxes ==
  {Box(0, 0, 2, 3), Box(1, 1, 4, 3), Box(0, 0, 1, 1), Box(2, 2, 2, 5), Box(0, 0, 3, 3)}

DetectedFaces == UNION {[1..n -> FaceBoxes] : n \in 1..MaxFaces}

GetLargestFace(faces) ==
  /\ probe.fn = "none"
  /\ probe' = [fn |-> "getLargestFace", faces |-> faces,
               largest |-> getLargestFace(faces)]
  /\ UNCHANGED <<callVars, score, js>>

NextLargest == \E faces \in DetectedFaces : GetLargestFace(faces)

SpecLargest == Init /\ [][NextLargest]_vars

AreaOf(face) == BoxWidth(face) * BoxHeight(face)

\* C16: getLargestFace returns a face of maximal bounding-box area, and
\* among several of that area the one that comes first in the list.
C16_LargestFirstOfEquals ==
  probe.fn = "getLargestFace" =>
    \E i \in 1..Len(probe.faces) :
      /\ probe.largest = probe.faces[i]
      /\ \A j \in 1..Len(probe.faces) : AreaOf(probe.faces[j]) <= AreaOf(probe.faces[i])
      /\ \A j \in 1..(i - 1) : AreaOf(probe.faces[j]) < AreaOf(probe.faces[i])

\* a smaller face first, then two different faces of the same, maximal area
C16_Witness ==
  /\ probe.fn = "getLargestFace"
  /\ Len(probe.faces) = 3
  /\ AreaOf(probe.faces[1]) < AreaOf(probe.faces[2])
  /\ AreaOf(probe.faces[2]) = AreaOf(probe.faces[3])
  /\ probe.faces[2] # probe.faces[3]
  /\ probe.largest = probe.faces[2]

(***************************************************************************)
(* SpecSample: calculateSampleSize applied, with maxSize MAX_IMAGE_SIZE,   *)
(* to the widths and heights 256 k and 256 k + 1 for k in 1 .. MaxDimSteps.*)
(***************************************************************************)
MaxDimSteps == 12

Dimensions == {256 * k + j : k \in 1..MaxDimSteps, j \in {0, 1}}

CalculateSampleSize(width, height) ==
  /\ probe.fn = "none"
  /\ probe' = [fn |-> "calculateSampleSize", width |-> width, height |-> height,
               sampleSize |-> calculateSampleSize(width, height, MAX_IMAGE_SIZE)]
  /\ UNCHANGED <<callVars, score, js>>

NextSample ==
  \E width \in Dimensions, height \in Dimensions : CalculateSampleSize(width, height)

SpecSample == Init /\ [][NextSample]_vars

\* C17: for an image whose larger dimension exceeds MAX_IMAGE_SIZE,
\* calculateSampleSize returns a reduction factor greater than 1.
C17_OversizeDownsampled ==
  (/\ probe.fn = "calculateSampleSize"
   /\ Max(probe.width, probe.height) > MAX_IMAGE_SIZE)
  => probe.sampleSize > 1

(***************************************************************************)
(* The JavaScript layer (utils/faceVerification.js).                       *)
(*                                                                         *)
(* Strings.  A base64 string is its length and a pattern repeated over     *)
(* it: the character at index i is pat[i mod Len(pat)].  Indexing off the  *)
(* string, or at a number that is not an integer, gives undefined.         *)
(*                                                                         *)
(* Numbers.  A confidence is an exact fraction num / den; den = 0 is NaN.  *)
(* A position of the sampler is held as three times its value, because     *)
(* samplePoints / 3 is not an integer.  Floating-point rounding is not     *)
(* modelled.                                                               *)
(***************************************************************************)
CACHE_SIZE_LIMIT == 5

samplePoints == 100

JsFallbackThreshold == 45

RECURSIVE GCD(_, _)
GCD(a, b) == IF b = 0 THEN a ELSE GCD(b, a % b)

Rat(num, den) == [num |-> num, den |-> den]

NaN == Rat(0, 0)

\* c >= t for a number c and an integer t: false on NaN
AtLeast(c, t) == c.den > 0 /\ c.num >= t * c.den

\* img[i] for the position pos3 / 3
CharAt(img, pos3) ==
  IF pos3 % 3 # 0 \/ pos3 < 0 \/ pos3 \div 3 >= img.len THEN "undefined"
  ELSE img.pat[((pos3 \div 3) % Len(img.pat)) + 1]

\* lines 41-43: 1 - |size1 - size2| / ((size1 + size2) / 2), in lowest terms
reduced(num, den) == Rat(num \div GCD(Abs(num), den), den \div GCD(Abs(num), den))

sizeSimilarity(size1, size2) ==
  reduced((size1 + size2) - 2 * Abs(size1 - size2), size1 + size2)

\* lines 53-60: three groups of Array.from({length: samplePoints/3}), that
\* is of 33 positions each, then the filter i < minLength
groupPoints(minLength, step) ==
  [k \in 1..(3 * (samplePoints \div 3)) |->
     IF k <= samplePoints \div 3
     THEN 3 * ((k - 1) * step)
     ELSE IF k <= 2 * (samplePoints \div 3)
     THEN 3 * ((minLength \div 2) + (k - 1 - (samplePoints \div 3)) * step)
     ELSE 3 * minLength
            - (samplePoints - 3 * (k - 1 - 2 * (samplePoints \div 3))) * step]

checkPoints(minLength) ==
  SelectSeq(groupPoints(minLength, minLength \div samplePoints),
            LAMBDA pos3 : pos3 < 3 * minLength)

\* lines 62-66
countMatches(img1, img2, points) ==
  Cardinality({k \in 1..Len(points) :
                 CharAt(img1, points[k]) = CharAt(img2, points[k])})

\* lines 68-73: (sizeSimilarity * 0.2 + matches / n * 0.8) * 100, at most 100
weighted(ss, matches, n) ==
  IF n = 0 THEN NaN
  ELSE IF 20 * ss.num * n + 80 * matches * ss.den > 100 * ss.den * n
  THEN Rat(100, 1)
  ELSE Rat(20 * ss.num * n + 80 * matches * ss.den, ss.den * n)

patternConfidence(img1, img2, ss, points) ==
  weighted(ss, countMatches(img1, img2, points), Len(points))

sizeChecked(img1, img2, ss) ==
  IF 2 * ss.num < ss.den
  THEN \* sizeSimilarity < 0.5: return sizeSimilarity * 100
       Rat(100 * ss.num, ss.den)
  ELSE patternConfidence(img1, img2, ss, checkPoints(Min(img1.len, img2.len)))

\* two empty strings: 0 / 0 is NaN, no comparison with NaN is true, and
\* Math.min(NaN, 100) is NaN
optimizedFallbackComparison(img1, img2) ==
  IF img1.len + img2.len = 0 THEN NaN
  ELSE sizeChecked(img1, img2, sizeSimilarity(img1.len, img2.len))

(***************************************************************************)
(* SpecFallback: optimizedFallbackComparison applied to every pair of      *)
(* non-empty strings whose length is at most 4 or, up to MaxStringLen,     *)
(* within 1 of a multiple of 50, and whose pattern is one of Patterns.     *)
(***************************************************************************)
MaxStringLen == 301

Patterns == {<<"A">>, <<"B">>, <<"A", "B">>}

Strings ==
  {[len |-> n, pat |-> p] :
     n \in {m \in 1..MaxStringLen : m <= 4 \/ m % 50 \in {0, 1}}, p \in Patterns}

\* the positions compared: none on the early return of lines 45-47
sampledPoints(img1, img2) ==
  IF 2 * sizeSimilarity(img1.len, img2.len).num < sizeSimilarity(img1.len, img2.len).den
  THEN <<>>
  ELSE checkPoints(Min(img1.len, img2.len))

OptimizedFallbackComparison(img1, img2) ==
  /\ probe.fn = "none"
  /\ probe' = [fn |-> "optimizedFallbackComparison", img1 |-> img1, img2 |-> img2,
               confidence |-> optimizedFallbackComparison(img1, img2),
               points |-> sampledPoints(img1, img2),
               matches |-> countMatches(img1, img2, sampledPoints(img1, img2))]
  /\ UNCHANGED <<callVars, score, js>>

NextFallback ==
  \E img1 \in Strings, img2 \in Strings : OptimizedFallbackComparison(img1, img2)

SpecFallback == Init /\ [][NextFallback]_vars

\* C20: for every pair of non-empty strings, lengths that differ by more
\* than a factor of three included, the confidence returned by
\* optimizedFallbackComparison is a number of [0, 100].
C20_ConfidenceInRange ==
  probe.fn = "optimizedFallbackComparison" =>
    /\ AtLeast(probe.confidence, 0)
    /\ probe.confidence.num <= 100 * probe.confidence.den

(***************************************************************************)
(* SpecJS: verifyFaceOffline, one call at a time, with compareFaces,       *)
(* validateFaceInImage and imageToBase64.  A step is the code between two  *)
(* awaits.  js.pc is "idle", "statSaved" / "statCaptured" (RNFS.stat is    *)
(* pending), "native" (FaceComparison.compareFaces is pending), "read1" /  *)
(* "read2" (imageToBase64 is pending) or "returned".                       *)
(***************************************************************************)
MaxJsCalls == 2

\* The files of the device: their size in bytes and the pattern of their
\* base64 text.  "tiny" is below and "huge" above the accepted sizes, "p1"
\* and "p2" have one size and no character in common, "q" is six times
\* their size, "big" has the largest accepted size; any other path names no
\* file.
JsPaths == {"tiny", "p1", "p2", "q", "big", "huge", "gone"}

JsFile(path) ==
  CASE path = "tiny" -> [exists |-> TRUE, size |-> 5000, pat |-> <<"A">>]
    [] path = "p1" -> [exists |-> TRUE, size |-> 10240, pat |-> <<"A">>]
    [] path = "p2" -> [exists |-> TRUE, size |-> 10240, pat |-> <<"B">>]
    [] path = "q" -> [exists |-> TRUE, size |-> 61440, pat |-> <<"A">>]
    [] path = "big" -> [exists |-> TRUE, size |-> 10485760, pat |-> <<"A", "B">>]
    [] path = "huge" -> [exists |-> TRUE, size |-> 10485761, pat |-> <<"A">>]
    [] OTHER -> [exists |-> FALSE, size |-> 0, pat |-> <<"A">>]

\* RNFS.readFile(path, 'base64'): four characters for every three bytes
Base64(path) ==
  [len |-> 4 * ((JsFile(path).size + 2) \div 3), pat |-> JsFile(path).pat]

\* what a caller can pass as capturedPhotoUri: a path, a file:// URI,
\* a URI of another scheme, and undefined
JsUris ==
  {[isString |-> TRUE, prefix |-> x, path |-> p] :
     x \in {"", "file://", "content://"}, p \in JsPaths}
    \cup {[isString |-> FALSE, prefix |-> "", path |-> ""]}

\* lines 162-165: a file:// prefix is removed, any other string is kept whole
capturedPathOf(uri) ==
  IF uri.prefix = "file://" \/ uri.prefix = "" THEN uri.path
  ELSE "content://"

\* the size check written with && : no size is refused
validateFaceInImage_And(imagePath) ==
  IF ~JsFile(imagePath).exists THEN FALSE
  ELSE IF JsFile(imagePath).size < 10 * 1024 /\ JsFile(imagePath).size > 10240 * 1024
  THEN FALSE
  ELSE TRUE

\* RNFS.stat throws for a missing file; fileSizeKB = size / 1024
validateFaceInImage(imagePath) ==
  IF ~JsFile(imagePath).exists THEN FALSE
  ELSE IF JsFile(imagePath).size < 10 * 1024 \/ JsFile(imagePath).size > 10240 * 1024
  THEN FALSE
  ELSE TRUE

CacheHas(cache, key) == \E i \in 1..Len(cache) : cache[i].key = key

CacheValue(cache, key) ==
  cache[CHOOSE i \in 1..Len(cache) : cache[i].key = key].value

firstKey_Newest(cache) == cache[Len(cache)].key

\* base64Cache.keys().next().value: a Map iterates in insertion order
firstKey(cache) == cache[1].key

\* Map.prototype.delete
mapDelete(cache, key) == SelectSeq(cache, LAMBDA e : e.key # key)

\* Map.prototype.set: a key already present keeps its place
mapSet(cache, key, value) ==
  IF CacheHas(cache, key)
  THEN [i \in 1..Len(cache) |->
          IF cache[i].key = key THEN [key |-> key, value |-> value] ELSE cache[i]]
  ELSE Append(cache, [key |-> key, value |-> value])

\* lines 22-26: the oldest key is deleted when the Map is full
afterEviction(cache) ==
  IF Len(cache) >= CACHE_SIZE_LIMIT THEN mapDelete(cache, firstKey(cache)) ELSE cache

cacheSet(cache, key, value) == mapSet(afterEviction(cache), key, value)

\* readOk: RNFS.readFile succeeds on an existing file (no read is made on
\* a cached path)
imageToBase64(cache, imagePath, readOk) ==
  IF CacheHas(cache, imagePath)
  THEN [threw |-> FALSE, value |-> CacheValue(cache, imagePath), cache |-> cache]
  ELSE IF ~readOk \/ ~JsFile(imagePath).exists
  THEN [threw |-> TRUE, value |-> NoString, cache |-> cache]
  ELSE [threw |-> FALSE, value |-> Base64(imagePath),
        cache |-> cacheSet(cache, imagePath, Base64(imagePath))]

JsResult(isMatch, confidence, message) ==
  [isMatch |-> isMatch, confidence |-> confidence, message |-> message]

\* the catch block of compareFaces (lines 119-126)
compareFacesCaught ==
  JsResult(FALSE, Rat(0, 1), "Error during face verification: ")

\* lines 105-118
fallbackResult(fallbackConfidence) ==
  IF AtLeast(fallbackConfidence, JsFallbackThreshold)
  THEN JsResult(TRUE, fallbackConfidence, "Face verified successfully! (Offline mode)")
  ELSE JsResult(FALSE, fallbackConfidence, "Face does not match. Please try again.")

\* what the native module answers: a rejection, or a verdict of either path
NativeDistances == {0, 525, 526, 1500, 1501, 5000}

NativeVerdict(v) ==
  [kind |-> "resolved",
   result |-> JsResult(v.isMatch, Rat(v.confidence, ConfDen), v.message)]

NativeOutcomes ==
  {[kind |-> "rejected", result |-> NoJsResult]}
    \cup {NativeVerdict(FaceRegionVerdict(d)) : d \in NativeDistances}
    \cup {NativeVerdict(FallbackVerdict(d)) : d \in NativeDistances}

JsReturned(j, result) ==
  [j EXCEPT !.pc = "returned", !.settled = "resolved", !.result = result]

\* verifyFaceOffline up to the first await (line 152)
VerifyFaceOffline(savedPhotoPath, capturedPhotoUri, hasNative) ==
  /\ js.pc = "idle"
  /\ js.calls < MaxJsCalls
  /\ js.calls > 0 => hasNative = js.hasNative
  /\ js' = [js EXCEPT !.pc = "statSaved", !.hasNative = hasNative,
                      !.savedPhotoPath = savedPhotoPath,
                      !.capturedPhotoUri = capturedPhotoUri]
  /\ UNCHANGED <<callVars, score, probe>>

\* lines 152-167: the saved photo is validated; startsWith throws on a
\* capturedPhotoUri that is no string, into the catch of lines 178-185
SavedValidated ==
  /\ js.pc = "statSaved"
  /\ js' = IF ~validateFaceInImage(js.savedPhotoPath)
           THEN JsReturned(js, JsResult(FALSE, Rat(0, 1), "Saved photo is invalid"))
           ELSE IF ~js.capturedPhotoUri.isString
           THEN JsReturned(js, JsResult(FALSE, Rat(0, 1), "Face verification failed"))
           ELSE [js EXCEPT !.pc = "statCaptured",
                           !.capturedPath = capturedPathOf(js.capturedPhotoUri)]
  /\ UNCHANGED <<callVars, score, probe>>

\* lines 167-177 and 78-102: the captured photo is validated, then
\* compareFaces calls the native module or starts reading the saved photo
CapturedValidated ==
  /\ js.pc = "statCaptured"
  /\ js' = IF ~validateFaceInImage(js.capturedPath)
           THEN JsReturned(js, JsResult(FALSE, Rat(0, 1), "Captured photo is invalid"))
           ELSE IF js.hasNative THEN [js EXCEPT !.pc = "native"]
           ELSE [js EXCEPT !.pc = "read1"]
  /\ UNCHANGED <<callVars, score, probe>>

\* lines 86-97 and 119-126: the native promise settles
NativeSettled(outcome) ==
  /\ js.pc = "native"
  /\ js' = IF outcome.kind = "rejected"
           THEN JsReturned([js EXCEPT !.native = outcome], compareFacesCaught)
           ELSE JsReturned([js EXCEPT !.native = outcome], outcome.result)
  /\ UNCHANGED <<callVars, score, probe>>

savedRead(j, readOk, got) ==
  IF got.threw
  THEN JsReturned([j EXCEPT !.reads = Append(@, readOk)], compareFacesCaught)
  ELSE [j EXCEPT !.pc = "read2", !.reads = Append(@, readOk),
                 !.savedImage = got.value, !.base64Cache = got.cache]

\* line 102: imageToBase64(savedPhotoPath) settles
SavedRead(readOk) ==
  /\ js.pc = "read1"
  /\ CacheHas(js.base64Cache, js.savedPhotoPath) => readOk
  /\ js' = savedRead(js, readOk, imageToBase64(js.base64Cache, js.savedPhotoPath, readOk))
  /\ UNCHANGED <<callVars, score, probe>>

capturedRead(j, readOk, got) ==
  IF got.threw
  THEN JsReturned([j EXCEPT !.reads = Append(@, readOk)], compareFacesCaught)
  ELSE JsReturned([j EXCEPT !.reads = Append(@, readOk),
                            !.capturedImage = got.value, !.base64Cache = got.cache],
                  fallbackResult(optimizedFallbackComparison(j.savedImage, got.value)))

\* lines 103-118: imageToBase64(capturedPhotoPath) settles and the two
\* strings are compared
CapturedRead(readOk) ==
  /\ js.pc = "read2"
  /\ CacheHas(js.base64Cache, js.capturedPath) => readOk
  /\ js' = capturedRead(js, readOk,
                        imageToBase64(js.base64Cache, js.capturedPath, readOk))
  /\ UNCHANGED <<callVars, score, probe>>

\* the caller has the result; the module keeps base64Cache
JsReturn ==
  /\ js.pc = "returned"
  /\ js' = [JsIdle EXCEPT !.calls = js.calls + 1, !.hasNative = js.hasNative,
                          !.base64Cache = js.base64Cache]
  /\ UNCHANGED <<callVars, score, probe>>

NextJS ==
  \/ \E savedPhotoPath \in JsPaths, capturedPhotoUri \in JsUris, hasNative \in BOOLEAN :
        VerifyFaceOffline(savedPhotoPath, capturedPhotoUri, hasNative)
  \/ SavedValidated
  \/ CapturedValidated
  \/ \E outcome \in NativeOutcomes : NativeSettled(outcome)
  \/ \E readOk \in BOOLEAN : SavedRead(readOk)
  \/ \E readOk \in BOOLEAN : CapturedRead(readOk)
  \/ JsReturn

SpecJS == Init /\ [][NextJS]_vars

\* a file of 10 KB to 10240 KB
Accepted(path) ==
  /\ JsFile(path).exists
  /\ JsFile(path).size >= 10 * 1024
  /\ JsFile(path).size <= 10240 * 1024

\* a file is missing or outside the accepted sizes, the captured URI is no
\* string, the native module rejected, or a read failed
JsFailure ==
  \/ ~Accepted(js.savedPhotoPath)
  \/ ~js.capturedPhotoUri.isString
  \/ ~Accepted(capturedPathOf(js.capturedPhotoUri))
  \/ js.native.kind = "rejected"
  \/ \E i \in 1..Len(js.reads) : ~js.reads[i]

\* a comparison completed and reported a match
JsMatchReported ==
  \/ js.native.kind = "resolved" /\ js.native.result.isMatch
  \/ /\ ~js.hasNative
     /\ js.reads = <<TRUE, TRUE>>
     /\ AtLeast(optimizedFallbackComparison(Base64(js.savedPhotoPath),
                                            Base64(js.capturedPath)),
                JsFallbackThreshold)

\* C18: verifyFaceOffline always resolves; after any failure (missing file,
\* file outside the accepted sizes, native rejection, exception while
\* reading or comparing) the result has isMatch false and confidence 0, and
\* isMatch is true only when a comparison completed and reported a match.
C18_FailuresAreNoMatch ==
  js.pc = "returned" =>
    /\ js.settled = "resolved"
    /\ JsFailure => /\ ~js.result.isMatch
                    /\ js.result.confidence = Rat(0, 1)
    /\ js.result.isMatch => (~JsFailure /\ JsMatchReported)

C18_Witness ==
  /\ js.pc = "returned"
  /\ js.native.kind = "rejected"
  /\ js.settled = "resolved"
  /\ ~js.result.isMatch

\* C19: a result of compareFaces with isMatch true has a confidence of at
\* least 70, whether it comes from the native module or from the
\* byte-sampling fallback.
C19_MatchMeansSeventy ==
  (js.pc = "returned" /\ js.result.isMatch)
    => AtLeast(js.result.confidence, FaceThreshold)

\* C21: the fallback decision is at least as strict as the face-region
\* decision: a distance that the fallback path accepts is accepted by the
\* face-region path, and a distance that the face-region path refuses is
\* refused by the fallback path.
C21_FallbackStricter ==
  /\ (score.mode = "fallback" /\ score.result.isMatch)
       => FaceRegionVerdict(score.distance).isMatch
  /\ (score.mode = "face" /\ ~score.result.isMatch)
       => ~FallbackVerdict(score.distance).isMatch

\* the largest distance the fallback path accepts
C21_Witness ==
  /\ score.mode = "fallback"
  /\ score.result.isMatch
  /\ ~FallbackVerdict(score.distance + 1).isMatch
  /\ FaceRegionVerdict(score.distance + 1).isMatch

(***************************************************************************)
(* SpecJoin: the control flow of one compareFaces call, with what each     *)
(* extractFaceFeatures call does (it throws, or it returns a vector) taken *)
(* as an input, and with the steps of the call logged in order in          *)
(* probe.steps: "load1", "load2", "locate1", "locate2" (the detector        *)
(* answered), "region1", "region2" (the face crop, or the resized copy of  *)
(* the fallback, was made), "features1", "features2", "score" (the         *)
(* distance was computed).                                                 *)
(***************************************************************************)
ExtractorThrows ==
  [threw |-> TRUE, isNull |-> FALSE, features |-> <<>>, fromCache |-> FALSE,
   cache |-> EmptyCache, layout |-> <<>>]

ExtractorReturns(features) ==
  [threw |-> FALSE, isNull |-> FALSE, features |-> features, fromCache |-> FALSE,
   cache |-> EmptyCache, layout |-> <<>>]

\* the cache stays as it is: nothing is put (see SpecCache)
ExtractorOutcomes ==
  {ExtractorThrows, ExtractorReturns(VectorFor(0)), ExtractorReturns(VectorFor(500))}

\* performFallbackComparison (lines 731-773) on given extractions
joinFallback(bitmap1, bitmap2, e1, e2, p, bs) ==
  fallbackOutcome(CreateScaledBitmap(bitmap1, FallbackTargetSize, FallbackTargetSize),
                  CreateScaledBitmap(bitmap2, FallbackTargetSize, FallbackTargetSize),
                  e1, e2, p, Reject(p, "ERROR", "Fallback comparison failed: "),
                  [bs EXCEPT !.resized1 = "live", !.resized2 = "live"])

\* lines 137-186 on given extractions
joinRegions(faceBitmap1, faceBitmap2, e1, e2, p, cache, bs) ==
  IF IsNull(faceBitmap1) \/ IsNull(faceBitmap2)
  THEN faceRegionsCompared(faceBitmap1, faceBitmap2, p, cache, bs)
  ELSE faceRegionOutcome(faceBitmap1, faceBitmap2, e1, e2, p,
                         Reject(p, "ERROR", "exception message"),
                         [bs EXCEPT !.faceBitmap1 = "live", !.faceBitmap2 = "live"])

\* the steps from the first extraction on: one per extraction made, and the
\* scorer when the promise was resolved
comparisonSteps(out) ==
  SubSeq(<<"features1", "features2">>, 1, Len(out.extracts))
    \o (IF out.promise.state = "resolved" THEN <<"score">> ELSE <<>>)

Steps(p) == IF p.fn = "compareFaces" THEN p.steps ELSE <<>>

Logging(steps) == [fn |-> "compareFaces", steps |-> steps]

\* lines 70-103
JoinCompareFaces(imagePath1, imagePath2) ==
  /\ pc = "idle"
  /\ probe.fn = "none"
  /\ call' = [NoCall EXCEPT !.path1 = imagePath1, !.path2 = imagePath2,
                            !.bitmap1 = loadAndOrientBitmap(imagePath1),
                            !.bitmap2 = loadAndOrientBitmap(imagePath2)]
  /\ bitmaps' = [NoBitmaps EXCEPT !.bitmap1 = Acquired(call'.bitmap1),
                                  !.bitmap2 = Acquired(call'.bitmap2)]
  /\ IF IsNull(call'.bitmap1) \/ IsNull(call'.bitmap2)
     THEN /\ promise' = Reject(PendingPromise, "ERROR", "Failed to load images")
          /\ exitPath' = "loadFail"
          /\ pc' = "done"
     ELSE /\ promise' = PendingPromise
          /\ exitPath' = ""
          /\ pc' = "detect1"
  /\ probe' = Logging(<<"load1", "load2">>)
  /\ UNCHANGED <<featureCache, extracts, usedFallback, prev, ncalls, score, js>>

\* the fallback branch of either success listener, with its cleanup
JoinFallback(path, located, e1, e2) ==
  LET fb == joinFallback(call.bitmap1, call.bitmap2,
                         [e1 EXCEPT !.cache = featureCache],
                         [e2 EXCEPT !.cache = featureCache], promise, bitmaps)
  IN  /\ promise' = fb.promise
      /\ bitmaps' = cleanup(fb.bitmaps)
      /\ extracts' = fb.extracts
      /\ usedFallback' = TRUE
      /\ exitPath' = path
      /\ pc' = "done"
      /\ probe' = Logging(Steps(probe) \o <<located, "region1", "region2">>
                            \o comparisonSteps(fb))

\* success listener of the first image (lines 104-194)
JoinDetect1Success(faces1, e1, e2) ==
  /\ pc = "detect1"
  /\ IF faces1 = <<>>
     THEN JoinFallback("noFace1", "locate1", e1, e2) /\ UNCHANGED call
     ELSE /\ call' = [call EXCEPT !.faces1 = faces1]
          /\ pc' = "detect2"
          /\ probe' = Logging(Steps(probe) \o <<"locate1">>)
          /\ UNCHANGED <<promise, bitmaps, extracts, usedFallback, exitPath>>
  /\ UNCHANGED <<featureCache, prev, ncalls, score, js>>

\* success listener of the second image (lines 117-188)
JoinDetect2Success(faces2, e1, e2) ==
  /\ pc = "detect2"
  /\ call' = [call EXCEPT !.faces2 = faces2]
  /\ IF faces2 = <<>>
     THEN JoinFallback("noFace2", "locate2", e1, e2)
     ELSE LET out == joinRegions(extractFaceRegion(call.bitmap1, getLargestFace(call.faces1)),
                                 extractFaceRegion(call.bitmap2, getLargestFace(faces2)),
                                 [e1 EXCEPT !.cache = featureCache],
                                 [e2 EXCEPT !.cache = featureCache],
                                 promise, featureCache, bitmaps)
          IN  /\ promise' = out.promise
              /\ bitmaps' = out.bitmaps
              /\ extracts' = out.extracts
              /\ exitPath' = out.exitPath
              /\ pc' = "done"
              /\ probe' = Logging(Steps(probe) \o <<"locate2", "region1", "region2">>
                                    \o comparisonSteps(out))
              /\ UNCHANGED usedFallback
  /\ UNCHANGED <<featureCache, prev, ncalls, score, js>>

\* the failure listeners (lines 189-193 and 195-199)
JoinDetectFailure ==
  /\ pc \in {"detect1", "detect2"}
  /\ promise' = onDetectionFailure(promise)
  /\ bitmaps' = cleanup(bitmaps)
  /\ exitPath' = IF pc = "detect1" THEN "detect1Fail" ELSE "detect2Fail"
  /\ pc' = "done"
  /\ UNCHANGED <<call, featureCache, extracts, usedFallback, prev, ncalls, score,
                 probe, js>>

NextJoin ==
  \/ \E imagePath1 \in Paths, imagePath2 \in Paths :
        JoinCompareFaces(imagePath1, imagePath2)
  \/ \E faces1 \in FaceLists, e1 \in ExtractorOutcomes,
        e2 \in ExtractorOutcomes : JoinDetect1Success(faces1, e1, e2)
  \/ \E faces2 \in FaceLists, e1 \in ExtractorOutcomes,
        e2 \in ExtractorOutcomes : JoinDetect2Success(faces2, e1, e2)
  \/ JoinDetectFailure

SpecJoin == Init /\ [][NextJoin]_vars

Before(steps, first, then) ==
  \A j \in 1..Len(steps) :
    steps[j] = then => \E i \in 1..(j - 1) : steps[i] = first

MaxRegionSide == 151

RegionSides == {n \in 1..MaxRegionSide : n <= 3 \/ n % 50 \in {0, 1}}

Regions ==
  {[w |-> w, h |-> h, rgb |-> rgb] :
     w \in RegionSides, h \in RegionSides, rgb \in {SkinColour, BlueColour}}

ExtractOptimizedSkinTone(bm) ==
  /\ probe.fn = "none"
  /\ probe' = [fn |-> "extractOptimizedSkinTone", bitmap |-> bm,
               features |-> extractOptimizedSkinTone(bm)]
  /\ UNCHANGED <<callVars, score, js>>

NextSkin == \E bm \in Regions : ExtractOptimizedSkinTone(bm)

SpecSkin == Init /\ [][NextSkin]_vars

\* the coordinates 0, step, 2 step, ... below side
SampledAlong(side, step) == {x \in 0..(side - 1) : x % step = 0}

\* the pixels the two loops of lines 409-410 visit
SampledPixels(bm) ==
  Cardinality(SampledAlong(bm.w, Max(1, Min(bm.w, bm.h) \div 50)))
    * Cardinality(SampledAlong(bm.h, Max(1, Min(bm.w, bm.h) \div 50)))

SkinPixels(bm) ==
  IF isSkinTone(bm.rgb[1], bm.rgb[2], bm.rgb[3]) THEN SampledPixels(bm) ELSE 0

\* C23: the skin-pixel fraction (feature index 6) is the number of
\* skin-classified samples divided by the number of pixels sampled with the
\* stride, and lies in [0, 1], for every region width and height.
C23_SkinFraction ==
  probe.fn = "extractOptimizedSkinTone" =>
    /\ probe.features[7] = FP(SkinPixels(probe.bitmap), SampledPixels(probe.bitmap))
    /\ probe.features[7] >= 0
    /\ probe.features[7] <= 1000

(***************************************************************************)
(* SpecGrid: the 3 x 3 grid of extractOptimizedSpatialFeatures on every    *)
(* region of 3 .. MaxGridSide pixels a side.                               *)
(***************************************************************************)
MaxGridSide == 14

GridRegions ==
  {[w |-> w, h |-> h, rgb |-> SkinColour] : w \in 3..MaxGridSide, h \in 3..MaxGridSide}

ExtractOptimizedSpatialFeatures(bm) ==
  /\ probe.fn = "none"
  /\ probe' = [fn |-> "extractOptimizedSpatialFeatures", bitmap |-> bm,
               cells |-> [gx \in 0..2, gy \in 0..2 |-> gridCell(bm, 3, gx, gy)],
               features |-> extractOptimizedSpatialFeatures(bm)]
  /\ UNCHANGED <<callVars, score, js>>

NextGrid == \E bm \in GridRegions : ExtractOptimizedSpatialFeatures(bm)

SpecGrid == Init /\ [][NextGrid]_vars

\* the grid columns that hold pixel column x, the grid rows that hold row y
ColumnsHolding(cells, x) ==
  {gx \in 0..2 : cells[gx, 0].startX <= x /\ x < cells[gx, 0].endX}

RowsHolding(cells, y) ==
  {gy \in 0..2 : cells[0, gy].startY <= y /\ y < cells[0, gy].endY}

\* C24: for a region of width and height at least 3, every pixel column
\* and every pixel row belongs to exactly one cell of the 3 x 3 grid.
C24_GridCoversRegion ==
  probe.fn = "extractOptimizedSpatialFeatures" =>
    /\ \A x \in 0..(probe.bitmap.w - 1) :
         Cardinality(ColumnsHolding(probe.cells, x)) = 1
    /\ \A y \in 0..(probe.bitmap.h - 1) :
         Cardinality(RowsHolding(probe.cells, y)) = 1

\* three times an integer index of both strings
IsIndex(pos3, img1, img2) ==
  /\ pos3 % 3 = 0
  /\ 0 <= pos3
  /\ pos3 < 3 * Min(img1.len, img2.len)

\* C25: every position that optimizedFallbackComparison samples is an
\* integer index in [0, minLength), and the matches counted are the sampled
\* positions at which both strings hold the same character.
C25_SamplesAreIndices ==
  probe.fn = "optimizedFallbackComparison" =>
    /\ \A k \in 1..Len(probe.points) : IsIndex(probe.points[k], probe.img1, probe.img2)
    /\ probe.matches
         = Cardinality({k \in 1..Len(probe.points) :
                          /\ IsIndex(probe.points[k], probe.img1, probe.img2)
                          /\ CharAt(probe.img1, probe.points[k]) # "undefined"
                          /\ CharAt(probe.img1, probe.points[k])
                               = CharAt(probe.img2, probe.points[k])})

\* ---------------------------------------------------------------------
\* The /api/verify-face handler of server.js and of the optimized server
\* ---------------------------------------------------------------------

MaxPhotoLen == 1000

\* in a loop that does not advance, the counters are followed up to here
MaxSpinCount == 3

serverSamplePoints == 100

optimizedSamplePoints == 500

chunkSize == 1000

serverThreshold == 25

optimizedThreshold == 45

Servers == {"server", "optimized"}

PhotoPatterns == {<<"A">>, <<"B">>, <<"z", "A">>}

\* req.body.savedPhoto and req.body.capturedPhoto; length 0 is the empty
\* (or missing) photo of the 400 branch
Photos ==
  {[len |-> 0, pat |-> <<"A">>]} \cup
  {[len |-> n, pat |-> p] :
     n \in {m \in 1..MaxPhotoLen : m \in {1, 99, 100, 250, 500, 1000}},
     p \in PhotoPatterns}

charCodeAt(img, i) ==
  CASE CharAt(img, 3 * i) = "A" -> 65
    [] CharAt(img, 3 * i) = "B" -> 66
    [] OTHER -> 122

samplePointsOf(server) ==
  IF server = "server" THEN serverSamplePoints ELSE optimizedSamplePoints

\* const step = Math.floor(minLength / samplePoints)
stepOf(server, savedPhoto, capturedPhoto) ==
  Min(savedPhoto.len, capturedPhoto.len) \div samplePointsOf(server)

\* Math.round of a fraction
Round(c) == (2 * c.num + c.den) \div (2 * c.den)

\* a counter after ++; one of a loop whose step is 0 is followed up to
\* MaxSpinCount
Incremented(count, step) ==
  IF step = 0 THEN Min(count + 1, MaxSpinCount) ELSE count + 1

\* (sizeSimilarity * 0.3 + matches / samplePoints * 0.7) * 100
serverConfidence(a, b, matches) ==
  Rat(300 * (a + b - 2 * Abs(a - b)) + 7 * matches * (a + b), 10 * (a + b))

\* the chunks of chunkSize characters that agree at more than 0.6 of
\* their positions
chunkMatchesOf(savedPhoto, capturedPhoto) ==
  Cardinality(
    {i \in 0..((Min(savedPhoto.len, capturedPhoto.len) \div chunkSize) - 1) :
       10 * Cardinality({j \in 0..(chunkSize - 1) :
                           CharAt(savedPhoto, 3 * (i * chunkSize + j))
                             = CharAt(capturedPhoto, 3 * (i * chunkSize + j))})
         > 6 * chunkSize})

\* sizeSimilarity * 15 + exactMatchRatio * 40 + closeMatchRatio * 25
\*   + chunkMatchRatio * 20, over the denominator 1000 * (a + b) * chunks
weightedConfidence(a, b, exactMatches, closeMatches, chunkMatches, chunks) ==
  Rat(15000 * (a + b - 2 * Abs(a - b)) * chunks
        + (130 * exactMatches + 25 * closeMatches) * (a + b) * chunks
        + 20000 * chunkMatches * (a + b),
      1000 * (a + b) * chunks)

optimizedConfidence(savedPhoto, capturedPhoto, exactMatches, closeMatches) ==
  weightedConfidence(savedPhoto.len, capturedPhoto.len, exactMatches, closeMatches,
                     chunkMatchesOf(savedPhoto, capturedPhoto),
                     Max(1, Min(savedPhoto.len, capturedPhoto.len) \div chunkSize))

confidenceOf(h) ==
  IF h.server = "server"
  THEN serverConfidence(h.savedPhoto.len, h.capturedPhoto.len, h.exactMatches)
  ELSE optimizedConfidence(h.savedPhoto, h.capturedPhoto, h.exactMatches,
                           h.closeMatches)

thresholdOf(server) ==
  IF server = "server" THEN serverThreshold ELSE optimizedThreshold

NoResponse == [status |-> 0, success |-> FALSE, isMatch |-> FALSE, confidence |-> 0]

\* res.json of the success branch
verifyResponse(confidence, threshold) ==
  [status |-> 200, success |-> TRUE, isMatch |-> AtLeast(confidence, threshold),
   confidence |-> Round(confidence)]

\* the handler up to its sampling loop
VerifyFaceRequest(server, savedPhoto, capturedPhoto) ==
  /\ probe.fn = "none"
  /\ probe' = [fn |-> "verify-face", server |-> server,
               savedPhoto |-> savedPhoto, capturedPhoto |-> capturedPhoto,
               step |-> stepOf(server, savedPhoto, capturedPhoto),
               i |-> 0, exactMatches |-> 0, closeMatches |-> 0,
               pc |-> IF savedPhoto.len = 0 \/ capturedPhoto.len = 0
                      THEN "done" ELSE "loop",
               responses |-> IF savedPhoto.len = 0 \/ capturedPhoto.len = 0
                             THEN 1 ELSE 0,
               response |-> IF savedPhoto.len = 0 \/ capturedPhoto.len = 0
                            THEN [NoResponse EXCEPT !.status = 400]
                            ELSE NoResponse]
  /\ UNCHANGED <<callVars, score, js>>

\* one iteration of the sampling loop: the body, then i += step
SampleIteration ==
  /\ probe.fn = "verify-face"
  /\ probe.pc = "loop"
  /\ probe.i < Min(probe.savedPhoto.len, probe.capturedPhoto.len)
  /\ probe' =
       [probe EXCEPT
          !.exactMatches =
             IF CharAt(probe.savedPhoto, 3 * probe.i)
                  = CharAt(probe.capturedPhoto, 3 * probe.i)
             THEN Incremented(@, probe.step) ELSE @,
          !.closeMatches =
             IF /\ probe.server = "optimized"
                /\ CharAt(probe.savedPhoto, 3 * probe.i)
                     # CharAt(probe.capturedPhoto, 3 * probe.i)
                /\ Abs(charCodeAt(probe.savedPhoto, probe.i)
                         - charCodeAt(probe.capturedPhoto, probe.i)) <= 5
             THEN Incremented(@, probe.step) ELSE @,
          !.i = @ + probe.step]
  /\ UNCHANGED <<callVars, score, js>>

\* the loop has ended: the scores and res.json
VerifyFaceRespond ==
  /\ probe.fn = "verify-face"
  /\ probe.pc = "loop"
  /\ probe.i >= Min(probe.savedPhoto.len, probe.capturedPhoto.len)
  /\ probe' = [probe EXCEPT
                 !.pc = "done",
                 !.responses = @ + 1,
                 !.response = verifyResponse(confidenceOf(probe),
                                             thresholdOf(probe.server))]
  /\ UNCHANGED <<callVars, score, js>>

NextServer ==
  \/ \E server \in Servers, savedPhoto \in Photos, capturedPhoto \in Photos :
        VerifyFaceRequest(server, savedPhoto, capturedPhoto)
  \/ SampleIteration
  \/ VerifyFaceRespond

\* the event loop runs the handler on for as long as it has a step to take
SpecServer == Init /\ [][NextServer]_vars /\ WF_vars(NextServer)

\* C26: for every pair of non-empty photo strings, strings shorter than
\* the number of sample points included, the /api/verify-face handler
\* terminates and sends exactly one response.
C26_HandlerResponds ==
  (probe.fn = "verify-face")
    ~> (probe.fn = "verify-face" /\ probe.pc = "done" /\ probe.responses = 1)

\* ---------------------------------------------------------------------
\* utils/storage.js: AsyncStorage entries and the photo file
\* ---------------------------------------------------------------------

Usernames == {"u1", "u2"}

\* the user objects passed to saveUserData; null is one of them
NullUser == [isNull |-> TRUE, username |-> ""]

Users == {NullUser} \cup {[isNull |-> FALSE, username |-> u] : u \in Usernames}

JSONstringify(user) ==
  IF user.isNull THEN "null"
  ELSE IF user.username = "u1" THEN "{\"username\":\"u1\"}"
  ELSE "{\"username\":\"u2\"}"

JSONparse(data) == CHOOSE user \in Users : JSONstringify(user) = data

\* CryptoJS.SHA256(username).toString()
generateHash(username) == IF username = "u1" THEN "a3f1" ELSE "9c0e"

\* a photo URL: the text after the last '.' of its path, and the picture
\* the server holds under it; a URL that is not a string has isString FALSE
PhotoUrls ==
  {[isString |-> FALSE, ext |-> "", photo |-> ""]} \cup
  {[isString |-> TRUE, ext |-> "JPG", photo |-> "photoA"],
   [isString |-> TRUE, ext |-> "", photo |-> "photoB"]}

toLowerCase(s) == IF s = "JPG" THEN "jpg" ELSE s

\* decodedUrl.split('.').pop().toLowerCase() || 'jpg'
fileExtensionOf(photoUrl) ==
  IF toLowerCase(photoUrl.ext) = "" THEN "jpg" ELSE toLowerCase(photoUrl.ext)

\* `${RNFS.DocumentDirectoryPath}/${hash}.${fileExtension}`
FilePath(hash, fileExtension) == [hash |-> hash, ext |-> fileExtension]

NoPath == FilePath("", "")

FilePaths ==
  {FilePath(generateHash(u), fileExtensionOf(photoUrl)) :
     u \in Usernames, photoUrl \in {url \in PhotoUrls : url.isString}}

NoFile == [exists |-> FALSE, size |-> 0, data |-> ""]

\* what RNFS.downloadFile resolves to, or its rejection on a network error
DownloadResults ==
  {[rejects |-> FALSE, statusCode |-> 200, bytesWritten |-> 2],
   [rejects |-> FALSE, statusCode |-> 200, bytesWritten |-> 0],
   [rejects |-> FALSE, statusCode |-> 404, bytesWritten |-> 2],
   [rejects |-> FALSE, statusCode |-> 404, bytesWritten |-> 0],
   [rejects |-> TRUE, statusCode |-> 0, bytesWritten |-> 0]}

\* the file the download leaves at toFile
downloadedFile(photoUrl, downloadResult) ==
  IF downloadResult.rejects THEN NoFile
  ELSE [exists |-> TRUE, size |-> downloadResult.bytesWritten,
        data |-> IF downloadResult.bytesWritten = 0 THEN ""
                 ELSE IF downloadResult.statusCode = 200 THEN photoUrl.photo
                 ELSE "errorBody"]

EmptyItems == [user_data |-> "", photo_hash |-> "", photo_path |-> NoPath]

NoLast == [fn |-> "", threw |-> FALSE, returned |-> NoPath, before |-> NoPath,
           beforeFile |-> NoFile, unlinkFailed |-> FALSE]

EmptyStorage ==
  [fn |-> "storage", items |-> EmptyItems, files |-> [p \in FilePaths |-> NoFile],
   last |-> NoLast]

\* the storage the device holds: empty on a fresh install
Storage == IF probe.fn = "storage" THEN probe ELSE EmptyStorage

IsStorage == probe.fn \in {"none", "storage"}

RNFSexists(files, path) == path \in DOMAIN files /\ files[path].exists

\* lines 126-137, on given entries and files; NoPath is null
getSavedPhotoPath(items, files) ==
  IF items.photo_path # NoPath /\ RNFSexists(files, items.photo_path)
  THEN items.photo_path ELSE NoPath

\* lines 27-35: data ? JSON.parse(data) : null
getUserData(items) ==
  IF items.user_data # "" THEN JSONparse(items.user_data) ELSE NullUser

\* lines 157-165
isUserLoggedIn(items, files) ==
  getUserData(items) # NullUser /\ getSavedPhotoPath(items, files) # NoPath

FileAt(files, path) == IF path \in DOMAIN files THEN files[path] ELSE NoFile

Called(fn, s) ==
  [NoLast EXCEPT !.fn = fn,
                 !.before = getSavedPhotoPath(s.items, s.files),
                 !.beforeFile = FileAt(s.files, getSavedPhotoPath(s.items, s.files))]

SaveUserData(user) ==
  /\ IsStorage
  /\ probe' = [Storage EXCEPT !.items.user_data = JSONstringify(user),
                              !.last = Called("saveUserData", Storage)]
  /\ UNCHANGED <<callVars, score, js>>

\* lines 38-123 for a URL that is a string, on the storage s
downloadAndSavePhoto(s, filePath, hash, photoUrl, unlinkOk, downloadResult) ==
  IF s.files[filePath].exists /\ ~unlinkOk
  THEN [s EXCEPT !.last = [Called("downloadAndSavePhoto", s) EXCEPT !.threw = TRUE]]
  ELSE IF downloadResult.statusCode = 200 /\ downloadResult.bytesWritten > 0
       THEN [s EXCEPT !.files[filePath] = downloadedFile(photoUrl, downloadResult),
                      !.items.photo_path = filePath,
                      !.items.photo_hash = hash,
                      !.last = [Called("downloadAndSavePhoto", s)
                                  EXCEPT !.returned = filePath]]
       ELSE [s EXCEPT !.files[filePath] = downloadedFile(photoUrl, downloadResult),
                      !.last = [Called("downloadAndSavePhoto", s)
                                  EXCEPT !.threw = TRUE]]

DownloadAndSavePhoto(photoUrl, username, unlinkOk, downloadResult) ==
  /\ IsStorage
  /\ probe' =
       IF ~photoUrl.isString
       THEN [Storage EXCEPT !.last = [Called("downloadAndSavePhoto", Storage)
                                        EXCEPT !.threw = TRUE]]
       ELSE downloadAndSavePhoto(Storage,
                                 FilePath(generateHash(username),
                                          fileExtensionOf(photoUrl)),
                                 generateHash(username), photoUrl, unlinkOk,
                                 downloadResult)
  /\ UNCHANGED <<callVars, score, js>>

\* lines 140-154 on the storage s: a failing unlink leaves the try block
\* before multiRemove
clearStorage(s, unlinkOk) ==
  IF getSavedPhotoPath(s.items, s.files) # NoPath /\ ~unlinkOk
  THEN [s EXCEPT !.last = [Called("clearStorage", s) EXCEPT !.unlinkFailed = TRUE]]
  ELSE [s EXCEPT !.files = [p \in FilePaths |->
                              IF p = getSavedPhotoPath(s.items, s.files)
                              THEN NoFile ELSE s.files[p]],
                 !.items = EmptyItems,
                 !.last = Called("clearStorage", s)]

ClearStorage(unlinkOk) ==
  /\ IsStorage
  /\ probe' = clearStorage(Storage, unlinkOk)
  /\ UNCHANGED <<callVars, score, js>>

NextStorage ==
  \/ \E user \in Users : SaveUserData(user)
  \/ \E photoUrl \in PhotoUrls, username \in Usernames, unlinkOk \in BOOLEAN,
        downloadResult \in DownloadResults :
        DownloadAndSavePhoto(photoUrl, username, unlinkOk, downloadResult)
  \/ \E unlinkOk \in BOOLEAN : ClearStorage(unlinkOk)

SpecStorage == Init /\ [][NextStorage]_vars

\* C28: when downloadAndSavePhoto throws, getSavedPhotoPath returns the
\* same existing file, with the same content, that it returned before the
\* call.
C28_FailedDownloadKeepsPhoto ==
  (/\ probe.fn = "storage"
   /\ probe.last.fn = "downloadAndSavePhoto"
   /\ probe.last.threw
   /\ probe.last.before # NoPath)
    => /\ getSavedPhotoPath(probe.items, probe.files) = probe.last.before
       /\ FileAt(probe.files, probe.last.before) = probe.last.beforeFile

\* C29: after clearStorage returns, the user_data, photo_hash and
\* photo_path entries are removed and isUserLoggedIn returns false,
\* whatever the outcome of the deletion of the photo file.
C29_ClearStorageLogsOut ==
  (probe.fn = "storage" /\ probe.last.fn = "clearStorage")
    => /\ probe.items = EmptyItems
       /\ ~isUserLoggedIn(probe.items, probe.files)

\* ---------------------------------------------------------------------
\* screens/FaceVerificationScreen.js: the state of the component and its
\* handlers, each split at its awaits
\* ---------------------------------------------------------------------

MaxPhotos == 2

MaxPending == 2

\* capturedImage: 0 is null, n > 0 is the n-th photo taken
NoVerify == [active |-> FALSE, at |-> "", capturedImage |-> 0]

NoVerification == [isNull |-> TRUE, capturedImage |-> 0, isMatch |-> FALSE]

NoAlert == [title |-> "", capturedImage |-> 0, shownWith |-> 0]

SavedImages == {"null", "file", "http"}

\* the component after its first render: both effects of lines 26-29 are
\* awaiting
ScreenMounted ==
  [fn |-> "screen", capturedImage |-> 0, savedImage |-> "null", loading |-> FALSE,
   verificationResult |-> NoVerification, showCamera |-> FALSE,
   hasPermission |-> FALSE, loadingSaved |-> TRUE, checkingPermission |-> TRUE,
   openCameraPending |-> 0, takePhotoPending |-> 0, photosTaken |-> 0,
   verify |-> NoVerify, alert |-> NoAlert, wentBack |-> FALSE]

Screen == IF probe.fn = "screen" THEN probe ELSE ScreenMounted

IsScreen == probe.fn \in {"none", "screen"} /\ ~Screen.wentBack

Shown(title, capturedImage, s) ==
  [title |-> title, capturedImage |-> capturedImage, shownWith |-> s.capturedImage]

\* loadSavedPhoto settles (lines 36-60)
LoadSavedPhoto(savedImage) ==
  /\ IsScreen
  /\ Screen.loadingSaved
  /\ probe' = [Screen EXCEPT !.loadingSaved = FALSE,
                             !.savedImage = savedImage,
                             !.alert = IF savedImage = "null"
                                       THEN Shown("Error", 0, Screen) ELSE @]
  /\ UNCHANGED <<callVars, score, js>>

\* checkCameraPermission settles (lines 31-34)
CheckCameraPermission(granted) ==
  /\ IsScreen
  /\ Screen.checkingPermission
  /\ probe' = [Screen EXCEPT !.checkingPermission = FALSE,
                             !.hasPermission = granted]
  /\ UNCHANGED <<callVars, score, js>>

\* the Capture Face button (lines 258-263) runs handleOpenCamera up to its
\* await (lines 62-64), or to its end when permission is held
HandleOpenCamera ==
  /\ IsScreen
  /\ ~Screen.showCamera
  /\ ~Screen.loading
  /\ Screen.hasPermission \/ Screen.openCameraPending < MaxPending
  /\ probe' = IF Screen.hasPermission
              THEN [Screen EXCEPT !.showCamera = TRUE]
              ELSE [Screen EXCEPT !.openCameraPending = @ + 1]
  /\ UNCHANGED <<callVars, score, js>>

\* a permission request of handleOpenCamera settles (lines 65-74)
OpenCameraPermission(granted) ==
  /\ IsScreen
  /\ Screen.openCameraPending > 0
  /\ probe' = IF granted
              THEN [Screen EXCEPT !.openCameraPending = @ - 1,
                                  !.hasPermission = TRUE,
                                  !.showCamera = TRUE]
              ELSE [Screen EXCEPT !.openCameraPending = @ - 1,
                                  !.alert = Shown("Permission Denied", 0, Screen)]
  /\ UNCHANGED <<callVars, score, js>>

\* the close button of the camera view (lines 97-99)
HandleCloseCamera ==
  /\ IsScreen
  /\ Screen.showCamera
  /\ probe' = [Screen EXCEPT !.showCamera = FALSE]
  /\ UNCHANGED <<callVars, score, js>>

\* the shutter button (lines 201-206) runs handleTakePhoto up to its await
HandleTakePhoto ==
  /\ IsScreen
  /\ Screen.showCamera
  /\ Screen.photosTaken + Screen.takePhotoPending < MaxPhotos
  /\ probe' = [Screen EXCEPT !.takePhotoPending = @ + 1]
  /\ UNCHANGED <<callVars, score, js>>

\* takePhoto settles (lines 86-94)
TakePhotoSettled(taken) ==
  /\ IsScreen
  /\ Screen.takePhotoPending > 0
  /\ probe' = IF taken
              THEN [Screen EXCEPT !.takePhotoPending = @ - 1,
                                  !.photosTaken = @ + 1,
                                  !.capturedImage = Screen.photosTaken + 1,
                                  !.verificationResult = NoVerification,
                                  !.showCamera = FALSE]
              ELSE [Screen EXCEPT !.takePhotoPending = @ - 1,
                                  !.alert = Shown("Error", 0, Screen)]
  /\ UNCHANGED <<callVars, score, js>>

\* the Verify Face button (lines 265-277) runs handleVerify up to its
\* first await (lines 101-141)
HandleVerify ==
  /\ IsScreen
  /\ ~Screen.showCamera
  /\ Screen.capturedImage # 0
  /\ ~Screen.loading
  /\ probe' = IF Screen.savedImage = "null"
              THEN [Screen EXCEPT !.alert = Shown("Error", 0, Screen)]
              ELSE [Screen EXCEPT
                      !.loading = TRUE,
                      !.verificationResult = NoVerification,
                      !.alert = IF Screen.savedImage = "http"
                                THEN Shown("Info", 0, Screen) ELSE @,
                      !.verify = [active |-> TRUE,
                                  at |-> IF Screen.savedImage = "http"
                                         THEN "getUserData" ELSE "verifyFaceOffline",
                                  capturedImage |-> Screen.capturedImage]]
  /\ UNCHANGED <<callVars, score, js>>

\* getUserData and downloadAndSavePhoto settle (lines 125-136)
VerifyDownload(hasUser, downloaded) ==
  /\ IsScreen
  /\ Screen.verify.active
  /\ Screen.verify.at = "getUserData"
  /\ hasUser \/ downloaded
  /\ probe' = IF hasUser /\ ~downloaded
              THEN [Screen EXCEPT !.alert = Shown("Error", 0, Screen),
                                  !.loading = FALSE,
                                  !.verify = NoVerify]
              ELSE [Screen EXCEPT !.verify.at = "verifyFaceOffline"]
  /\ UNCHANGED <<callVars, score, js>>

\* verifyFaceOffline settles (lines 141-167)
VerifySettled(threw, isMatch) ==
  /\ IsScreen
  /\ Screen.verify.active
  /\ Screen.verify.at = "verifyFaceOffline"
  /\ threw => ~isMatch
  /\ probe' =
       IF threw
       THEN [Screen EXCEPT !.alert = Shown("Error", 0, Screen),
                           !.loading = FALSE,
                           !.verify = NoVerify]
       ELSE [Screen EXCEPT
               !.verificationResult =
                  [isNull |-> FALSE, capturedImage |-> Screen.verify.capturedImage,
                   isMatch |-> isMatch],
               !.alert = Shown(IF isMatch THEN "Success" ELSE "Verification Failed",
                               Screen.verify.capturedImage, Screen),
               !.loading = FALSE,
               !.verify = NoVerify]
  /\ UNCHANGED <<callVars, score, js>>

\* OK of the success alert (line 152)
AlertOk ==
  /\ IsScreen
  /\ Screen.alert.title = "Success"
  /\ probe' = [Screen EXCEPT !.wentBack = TRUE, !.alert = NoAlert]
  /\ UNCHANGED <<callVars, score, js>>

NextScreen ==
  \/ \E savedImage \in SavedImages : LoadSavedPhoto(savedImage)
  \/ \E granted \in BOOLEAN : CheckCameraPermission(granted)
  \/ HandleOpenCamera
  \/ \E granted \in BOOLEAN : OpenCameraPermission(granted)
  \/ HandleCloseCamera
  \/ HandleTakePhoto
  \/ \E taken \in BOOLEAN : TakePhotoSettled(taken)
  \/ HandleVerify
  \/ \E hasUser \in BOOLEAN, downloaded \in BOOLEAN : VerifyDownload(hasUser, downloaded)
  \/ \E threw \in BOOLEAN, isMatch \in BOOLEAN : VerifySettled(threw, isMatch)
  \/ AlertOk

SpecScreen == Init /\ [][NextScreen]_vars

\* C27: whenever a verification result is set, or its success alert is
\* shown, the result was computed from the captured image held in state,
\* under every interleaving of handleOpenCamera, handleTakePhoto and an
\* in-flight handleVerify.
C27_ResultOfCurrentImage ==
  probe.fn = "screen" =>
    /\ ~probe.verificationResult.isNull
         => probe.verificationResult.capturedImage = probe.capturedImage
    /\ probe.alert.title = "Success"
         => probe.alert.capturedImage = probe.alert.shownWith

\* ---------------------------------------------------------------------
\* imageToBase64 calls whose file reads overlap
\* ---------------------------------------------------------------------

MaxReading == 2

NoRead == [path |-> "", evicted |-> "", earliest |-> "", wasFull |-> FALSE,
           wasNew |-> FALSE]

\* the module after import: an empty Map and no call awaiting
Base64Idle ==
  [fn |-> "imageToBase64", base64Cache |-> <<>>, reading |-> <<>>,
   insertions |-> <<>>, last |-> NoRead]

B64 == IF probe.fn = "imageToBase64" THEN probe ELSE Base64Idle

IsB64 == probe.fn \in {"none", "imageToBase64"}

Keys(cache) == {cache[i].key : i \in 1..Len(cache)}

Without(seq, k) == [i \in 1..(Len(seq) - 1) |-> IF i < k THEN seq[i] ELSE seq[i + 1]]

\* insertions records every Map.set of a path that the Map did not hold;
\* the paths now cached, in the order in which they came in
InsertedOrder(insertions, cache) ==
  SelectSeq(insertions, LAMBDA path : path \in Keys(cache))

\* one call up to its await (lines 11-19): a cached path returns at once
ImageToBase64(imagePath) ==
  /\ IsB64
  /\ CacheHas(B64.base64Cache, imagePath) \/ Len(B64.reading) < MaxReading
  /\ probe' = IF CacheHas(B64.base64Cache, imagePath)
              THEN [B64 EXCEPT !.last = NoRead]
              ELSE [B64 EXCEPT !.reading = Append(@, imagePath), !.last = NoRead]
  /\ UNCHANGED <<callVars, score, js>>

\* the Map, the still awaited reads and the record of the settled read
settled(s, path, k) ==
  [s EXCEPT
     !.reading = Without(@, k),
     !.base64Cache = cacheSet(@, path, Base64(path)),
     !.insertions = IF path \in Keys(afterEviction(s.base64Cache)) THEN @
                    ELSE Append(SelectSeq(@, LAMBDA p : p # path), path),
     !.last = [path |-> path,
               evicted |->
                  IF Keys(s.base64Cache)
                       \subseteq Keys(cacheSet(s.base64Cache, path, Base64(path)))
                  THEN ""
                  ELSE CHOOSE p \in Keys(s.base64Cache) :
                         p \notin Keys(cacheSet(s.base64Cache, path, Base64(path))),
               earliest |->
                  IF s.base64Cache = <<>> THEN ""
                  ELSE InsertedOrder(s.insertions, s.base64Cache)[1],
               wasFull |-> Len(s.base64Cache) >= CACHE_SIZE_LIMIT,
               wasNew |-> path \notin Keys(s.base64Cache)]]

\* the k-th awaited read settles (lines 19-33)
ReadSettled(k, readOk) ==
  /\ IsB64
  /\ k <= Len(B64.reading)
  /\ ~JsFile(B64.reading[k]).exists => ~readOk
  /\ probe' = IF ~readOk
              THEN [B64 EXCEPT !.reading = Without(@, k), !.last = NoRead]
              ELSE settled(B64, B64.reading[k], k)
  /\ UNCHANGED <<callVars, score, js>>

NextBase64 ==
  \/ \E imagePath \in JsPaths : ImageToBase64(imagePath)
  \/ \E k \in 1..MaxReading, readOk \in BOOLEAN : ReadSettled(k, readOk)

SpecBase64 == Init /\ [][NextBase64]_vars

\* C30: after any sequence of imageToBase64 calls, overlapping reads
\* included, base64Cache holds at most CACHE_SIZE_LIMIT entries, and a new
\* path inserted into a full cache evicts the earliest-inserted path.
C30_CacheBoundedOldestEvicted ==
  probe.fn = "imageToBase64" =>
    /\ Len(probe.base64Cache) <= CACHE_SIZE_LIMIT
    /\ Cardinality(Keys(probe.base64Cache)) = Len(probe.base64Cache)
    /\ (probe.last.wasFull /\ probe.last.wasNew)
         => /\ probe.last.evicted # ""
            /\ probe.last.evicted = probe.last.earliest

\* a new path has come into a full cache while another read was awaited
C30_Witness ==
  /\ probe.fn = "imageToBase64"
  /\ probe.last.wasFull
  /\ probe.last.wasNew
  /\ probe.last.evicted # ""
  /\ Len(probe.reading) > 0

====
